---- MODULE Spec2Model ----
(***************************************************************************)
(* Model of the trading demo's core: the simulated market feed             *)
(* (mock-forex-stream), the M5 bar aggregator (aggregate-ticks), the       *)
(* draft/placed risk levels of the trade card (place-trades-card) and the  *)
(* position list kept by App, the chart's history seeding and pointer      *)
(* handlers (chart-panel), and the live feed (createPolygonForexStream).    *)
(*                                                                         *)
(* Units.  Prices of the feed are integers in 1e-6 price units, so that    *)
(* rounding to 5 decimals (a multiple of 10 units) is an observable        *)
(* conversion.  Lots are integers in 0.01 lot units (the sliders' step).   *)
(* Prices of the trade card are integers on a small grid: only their order *)
(* relative to the entry price matters to the validity table.              *)
(***************************************************************************)
EXTENDS Integers, Sequences, FiniteSets, TLC

VARIABLES
    \* --- createMockForexStream closure state (part_005:196-201) ---
    price,          \* let price
    timeSec,        \* let timeSec
    regime,         \* const regime (mutated in place)
    intervalId,     \* let intervalId; 0 stands for null
    onTick,         \* let onTick; NoCb stands for null
    \* --- the JS runtime's interval table ---
    timers,         \* ids of the intervals currently scheduled
    timerCb,        \* id -> the `callback` parameter its closure was created with
    nextTimerId,    \* next id setInterval will return
    \* --- observation of the feed (history variables) ---
    calls,          \* callback -> number of times it has been invoked
    lastEvent,      \* "init", "subscribe", "stop" or "fire"
    deliveredTo,    \* callbacks invoked by the last timer firing, in order
    deliveredTick,  \* the tick handed over by the last timer firing
    fireSubscriber, \* the callback of the latest subscribe() not followed by stop(), as of the start of the last firing
    lastSubscribed, \* the callback of the latest subscribe() not followed by stop()
    stopReturned,   \* stop() has returned and subscribe() was not called since
    callsAtStop,    \* calls as of the return of the last stop()
    priceAtStop,    \* price as of the return of the last stop()
    timeAtStop,     \* timeSec as of the return of the last stop()
    firedId,        \* id of the interval that fired last; 0 before the first firing
    fires,          \* number of timer firings so far (bounds the run)
    tickLog,        \* the regime the stream was created with, and the draw and price of each firing since
    \* --- createM5Aggregator closure state (part_005:255) ---
    state,          \* let state: the held bar; NoBar stands for null
    \* --- observation of the aggregator (history variables) ---
    returned,       \* the bar returned by the last applyTick; NoBar before the first call
    prevBarTime,    \* time of the bar returned by the call before the last; -1 if none
    lastTick,       \* the tick of the last applyTick call
    heldBefore,     \* state as it was when the last applyTick call started
    ordered,        \* every tick so far had a time >= the time of the tick before it
    \* --- one call of nextPrice under an arbitrary configuration ---
    stepOpts,       \* opts: basePrice, min, max, meanReversion (mrNum / mrDen)
    stepPrice,      \* the price argument
    stepRegime,     \* the regime argument
    stepOut,        \* the returned price; -1 before the call
    stepBefore,     \* the regime before the last tick step (history variable)
    \* --- PlaceTradesCard state (place-trades-card.tsx:149-186) ---
    lots,           \* const [lots, setLots]
    side,           \* const [side, setSide]
    livePrice,      \* the livePrice prop; 0 stands for undefined
    slEnabled,      \* const [slEnabled, setSlEnabled]
    tpEnabled,      \* const [tpEnabled, setTpEnabled]
    creationSlLevels,   \* const [creationSlLevels, setCreationSlLevels]
    creationTpLevels,   \* const [creationTpLevels, setCreationTpLevels]
    creationLotSliders, \* const [creationLotSliders, ...]: level id -> value
    \* --- App state (App.tsx) ---
    trades,         \* const [trades, setTrades]
    nextTradeId,    \* the value the next Date.now() returns
    \* --- observation of the card (history variables) ---
    lastOp,         \* the last operation, with what it was given and stored
    lotsEdited,     \* the position's lots were changed at some point
    levelRemoved,   \* a draft level was removed at some point
    \* --- history seeding by the chart (chart-panel.tsx:193-207, 262-272) ---
    seedCount,      \* barCount handed to generateInitialM5Bars
    seedRegime,     \* the regime sampleRegime() returns inside generateInitialM5Bars
    seedNoises,     \* the noise draws of the inner steps (repeated in a cycle)
    seedSample,     \* the regime sampleRegime() returns when a regime expires while seeding
    initialBars,    \* let initialBars; <<>> before seeding
    seedPath,       \* the price after each of the first inner steps (history variable)
    mockOptions,    \* let mockOptions: initialPrice, 0 when not given
    chartPc,        \* "loading", "seeded" or "streaming"
    \* --- PlaceTradesCard state of the placed positions (place-trades-card.tsx:169) ---
    tradeLotSliders, \* const [tradeLotSliders, ...]: <<trade id, level id>> -> value
    \* --- ChartPanel refs read by the pointer handlers (chart-panel.tsx:125-153) ---
    tradesRef,       \* tradesRef.current: the positions of the last render
    priceLinesRef,   \* priceLinesRef.current: per position, its level lines in insertion order
    previewLinesRef, \* previewLinesRef.current with previewLineMetaRef.current: the draft's lines
    isDraggingRef,   \* isDraggingRef.current
    dragTargetRef,   \* dragTargetRef.current; NoTarget stands for null
    dragFinalPriceRef, \* dragFinalPriceRef.current; NoPrice stands for null
    scrollEnabled,   \* the chart's options handleScroll and handleScale
    \* --- observation of the pointer handlers (history variables) ---
    pointerEvent,    \* the last event the chart handled, and the row the pointer is at (0 outside the chart)
    gesture,         \* what was so when the drag in progress (or the last one) started, and what it did since
    \* --- createPolygonForexStream closure state (part_006:97-100) ---
    apiKey,          \* const apiKey
    ws,              \* let ws; 0 stands for null, otherwise the index of the socket
    liveOnTick,      \* let onTick; NoCb stands for null
    subscribed,      \* let subscribed
    \* --- the sockets the live feed created, with the server's side of each ---
    sockets,
    \* --- observation of the live feed (history variable) ---
    liveLog,         \* the last operation, the ticks delivered, the exceptions no handler caught
    \* --- App state (App.tsx:80-82) ---
    dataSource,      \* const [dataSource, setDataSource]
    \* --- the chart panel's init effect (chart-panel.tsx:160-616) ---
    panel            \* the runs of the effect, cleanupRef.current, whether the panel is mounted

feedVars == <<price, timeSec, regime, intervalId, onTick, timers, timerCb,
              nextTimerId, calls, lastEvent, deliveredTo, deliveredTick,
              fireSubscriber, lastSubscribed, stopReturned, callsAtStop,
              priceAtStop, timeAtStop, firedId, fires, tickLog>>

aggVars == <<state, returned, prevBarTime, lastTick, heldBefore, ordered>>

stepVars == <<stepOpts, stepPrice, stepRegime, stepOut, stepBefore>>

cardVars == <<lots, side, livePrice, slEnabled, tpEnabled, creationSlLevels,
              creationTpLevels, creationLotSliders, trades, nextTradeId, lastOp,
              lotsEdited, levelRemoved>>

seedVars == <<seedCount, seedRegime, seedNoises, seedSample, initialBars,
              seedPath, mockOptions, chartPc>>

placedVars == <<tradeLotSliders>>

dragVars == <<tradesRef, priceLinesRef, previewLinesRef, isDraggingRef,
              dragTargetRef, dragFinalPriceRef, scrollEnabled, pointerEvent,
              gesture>>

liveVars == <<apiKey, ws, liveOnTick, subscribed, sockets, liveLog>>

appVars == <<dataSource>>

panelVars == <<panel>>

vars == <<feedVars, aggVars, stepVars, cardVars, seedVars, placedVars, dragVars, liveVars, appVars, panelVars>>

-----------------------------------------------------------------------------
\* Bounds of the model.

MaxFires == 3
MaxSubscribes == 2
NowSec == 898
MaxBucket == 2
MaxLevels == 2
MaxTrades == 1
MaxAbsLots == 20
MaxBars == 2
MaxDraws == 3

\* Program constants (1e-6 price units).

PRICE_GRID == 10
DefaultBasePrice == 1080000
DefaultMin == 1050000
DefaultMax == 1150000
DefaultTimeStepSeconds == 1
MeanReversionNum == 3
MeanReversionDen == 100
M5_PERIOD_SECONDS == 300

\* Program constants (0.01 lot units).

LOTS_MIN == 10
LOTS_MAX == 500

NoCb == "null"
Callbacks == {"A", "B"}

Max2(a, b) == IF a >= b THEN a ELSE b
Min2(a, b) == IF a <= b THEN a ELSE b
Abs(a) == IF a < 0 THEN -a ELSE a

-----------------------------------------------------------------------------
\* Pure functions of the feed.

\* Math.round(price * 1e5) / 1e5 for the rational price num/den (1e-6 units):
\* Math.round rounds half up, floor(y + 1/2); the result is a multiple of 10 units.
roundToPrecision(num, den) ==
    ((2 * num + PRICE_GRID * den) \div (2 * PRICE_GRID * den)) * PRICE_GRID

DEFAULTS ==
    [basePrice |-> DefaultBasePrice, min |-> DefaultMin, max |-> DefaultMax,
     timeStepSeconds |-> DefaultTimeStepSeconds,
     mrNum |-> MeanReversionNum, mrDen |-> MeanReversionDen]

\* The values randomNormal(0, volatility) is drawn from; any real is possible,
\* the model draws from a small symmetric set.
Noises == {-40, 40}

\* The samples sampleRegime() is drawn from: one per branch and sign, taken at
\* the low end of each uniform range.
sampleRegime ==
    { [type |-> "RANGE", drift |-> 0, volatility |-> 30, ticksRemaining |-> 80] }
    \cup { [type |-> "TREND", drift |-> sign * 50, volatility |-> 50, ticksRemaining |-> 20]
           : sign \in {-1, 1} }
    \cup { [type |-> "SPIKE", drift |-> 0, volatility |-> 150, ticksRemaining |-> 5] }

\* price + drift + noise, RANGE mean reversion, clamp: the value handed to
\* roundToPrecision, as a numerator over opts.mrDen.
clampedNext(p, r, opts, noise) ==
    LET next == p + r.drift + noise
        reverted == IF r.type = "RANGE"
                    THEN next * opts.mrDen + (opts.basePrice - next) * opts.mrNum
                    ELSE next * opts.mrDen
    IN  Min2(opts.max * opts.mrDen, Max2(opts.min * opts.mrDen, reverted))

nextPrice(p, r, opts, noise) ==
    roundToPrecision(clampedNext(p, r, opts, noise), opts.mrDen)

\* regime.volatility = 0.9 * regime.volatility + 0.1 * Math.abs(noise)
nextVolatility(r, noise) == (9 * r.volatility + Abs(noise)) \div 10

\* evolveRegime sampling only once the count is below zero.
evolveRegimeBelowZero(r, sample) ==
    IF r.ticksRemaining - 1 < 0
    THEN sample
    ELSE [r EXCEPT !.ticksRemaining = r.ticksRemaining - 1]

\* regime.ticksRemaining -= 1; if (regime.ticksRemaining <= 0) all four fields
\* are assigned from sampleRegime().
evolveRegime(r, sample) ==
    IF r.ticksRemaining - 1 <= 0
    THEN sample
    ELSE [r EXCEPT !.ticksRemaining = r.ticksRemaining - 1]

\* The samples evolveRegime draws for regime r: sampleRegime() is called only
\* when the regime expires.
resampled(r) == IF r.ticksRemaining - 1 <= 0 THEN sampleRegime ELSE {r}

-----------------------------------------------------------------------------
\* The M5 aggregator.

NoBar == [barTime |-> -1, open |-> 0, high |-> 0, low |-> 0, close |-> 0]
NoTick == [time |-> -1, price |-> 0]

\* Tick inputs: the first, second and last second of each 300 s bucket up to
\* MaxBucket, and a few prices.
TickTimes == { b * M5_PERIOD_SECONDS + o : b \in 0..MaxBucket, o \in {0, 1, M5_PERIOD_SECONDS - 1} }
TickPrices == {1, 2, 3}
Ticks == [time : TickTimes, price : TickPrices]

\* Math.floor(tick.time / M5_PERIOD_SECONDS) * M5_PERIOD_SECONDS
bucketOf(time) == (time \div M5_PERIOD_SECONDS) * M5_PERIOD_SECONDS

\* The bar an in-bucket tick extends the held bar to.
extendNoMax(st, tick) ==
    [st EXCEPT !.high = tick.price,
               !.low = Min2(st.low, tick.price),
               !.close = tick.price]
extend(st, tick) ==
    [st EXCEPT !.high = Max2(st.high, tick.price),
               !.low = Min2(st.low, tick.price),
               !.close = tick.price]

\* applyTick with >= for >: a tick of the held bar's bucket restarts the bar.
applyTickStateRestart(st, tick) ==
    LET barTime == bucketOf(tick.time)
    IN  IF st = NoBar \/ barTime >= st.barTime
        THEN [barTime |-> barTime, open |-> tick.price, high |-> tick.price,
              low |-> tick.price, close |-> tick.price]
        ELSE extend(st, tick)

\* applyTick with # for >: a tick of any other bucket starts a bar.
applyTickStateAnyBucket(st, tick) ==
    LET barTime == bucketOf(tick.time)
    IN  IF st = NoBar \/ barTime # st.barTime
        THEN [barTime |-> barTime, open |-> tick.price, high |-> tick.price,
              low |-> tick.price, close |-> tick.price]
        ELSE extend(st, tick)

\* The value of `state` after applyTick(tick); the call returns a copy of it.
applyTickState(st, tick) ==
    LET barTime == bucketOf(tick.time)
    IN  IF st = NoBar \/ barTime > st.barTime
        THEN [barTime |-> barTime, open |-> tick.price, high |-> tick.price,
              low |-> tick.price, close |-> tick.price]
        ELSE extend(st, tick)

InitAgg ==
    /\ state = NoBar
    /\ returned = NoBar
    /\ prevBarTime = -1
    /\ lastTick = NoTick
    /\ heldBefore = NoBar
    /\ ordered = TRUE

applyTick(tick) ==
    /\ state' = applyTickState(state, tick)
    /\ returned' = state'
    /\ prevBarTime' = returned.barTime
    /\ lastTick' = tick
    /\ heldBefore' = state
    /\ ordered' = (ordered /\ tick.time >= lastTick.time)
    /\ UNCHANGED <<feedVars, stepVars, cardVars, seedVars, placedVars, dragVars, liveVars, appVars, panelVars>>

NextAgg == \E tick \in Ticks : applyTick(tick)

-----------------------------------------------------------------------------
\* The simulated feed.

InitFeed ==
    /\ price = DEFAULTS.basePrice
    /\ timeSec = NowSec
    /\ regime \in sampleRegime
    /\ intervalId = 0
    /\ onTick = NoCb
    /\ timers = {}
    /\ timerCb = [i \in {} |-> NoCb]
    /\ nextTimerId = 1
    /\ calls = [c \in Callbacks |-> 0]
    /\ lastEvent = "init"
    /\ deliveredTo = <<>>
    /\ deliveredTick = [time |-> 0, price |-> 0]
    /\ fireSubscriber = NoCb
    /\ lastSubscribed = NoCb
    /\ stopReturned = FALSE
    /\ callsAtStop = [c \in Callbacks |-> 0]
    /\ priceAtStop = 0
    /\ timeAtStop = 0
    /\ firedId = 0
    /\ fires = 0
    /\ tickLog = [start |-> regime, steps |-> <<>>]

\* stop(): what it does to the closure and to the interval table.
stopTimers == IF intervalId # 0 THEN timers \ {intervalId} ELSE timers
stopOnTickKept == onTick
stopOnTick == NoCb

subscribe(callback) ==
    /\ nextTimerId <= MaxSubscribes
    /\ onTick' = callback
    /\ intervalId' = nextTimerId
    /\ timers' = timers \cup {nextTimerId}
    /\ timerCb' = [i \in DOMAIN timerCb \cup {nextTimerId} |->
                     IF i = nextTimerId THEN callback ELSE timerCb[i]]
    /\ nextTimerId' = nextTimerId + 1
    /\ lastEvent' = "subscribe"
    /\ lastSubscribed' = callback
    /\ stopReturned' = FALSE
    /\ UNCHANGED <<price, timeSec, regime, calls, deliveredTo, deliveredTick,
                   fireSubscriber, callsAtStop, priceAtStop, timeAtStop,
                   firedId, fires, tickLog>>
    /\ UNCHANGED <<aggVars, stepVars, cardVars, seedVars, placedVars, dragVars, liveVars, appVars, panelVars>>

stop ==
    /\ timers' = stopTimers
    /\ intervalId' = 0
    /\ onTick' = stopOnTick
    /\ lastEvent' = "stop"
    /\ lastSubscribed' = NoCb
    /\ stopReturned' = TRUE
    /\ callsAtStop' = calls
    /\ priceAtStop' = price
    /\ timeAtStop' = timeSec
    /\ UNCHANGED <<price, timeSec, regime, timerCb, nextTimerId, calls,
                   deliveredTo, deliveredTick, fireSubscriber, firedId, fires, tickLog>>
    /\ UNCHANGED <<aggVars, stepVars, cardVars, seedVars, placedVars, dragVars, liveVars, appVars, panelVars>>

\* The callback the interval closure with id `id` hands its tick to: onTick?.(...)
tickTargetCaptured(id) == timerCb[id]
tickTarget(id) == onTick

\* One firing of interval `id`.  The subscriber's callback runs inside the firing;
\* reentrantStop says whether that callback calls stop() before it returns.
TimerFire(id, noise, sample, reentrantStop) ==
    LET newPrice == nextPrice(price, regime, DEFAULTS, noise)
        smoothed == [regime EXCEPT !.volatility = nextVolatility(regime, noise)]
        newTime == timeSec + DEFAULTS.timeStepSeconds
        target == tickTarget(id)
        invoked == target # NoCb
    IN  /\ id \in timers
        /\ fires < MaxFires
        /\ reentrantStop => invoked
        /\ price' = newPrice
        /\ regime' = evolveRegime(smoothed, sample)
        /\ timeSec' = newTime
        /\ fires' = fires + 1
        /\ tickLog' = [tickLog EXCEPT !.steps =
                          Append(@, [noise |-> noise, sample |-> sample,
                                     price |-> newPrice])]
        /\ firedId' = id
        /\ lastEvent' = "fire"
        /\ fireSubscriber' = lastSubscribed
        /\ deliveredTo' = IF invoked THEN <<target>> ELSE <<>>
        /\ deliveredTick' = [time |-> newTime, price |-> newPrice]
        /\ calls' = IF invoked THEN [calls EXCEPT ![target] = @ + 1] ELSE calls
        /\ IF reentrantStop
           THEN /\ timers' = stopTimers
                /\ intervalId' = 0
                /\ onTick' = stopOnTick
                /\ lastSubscribed' = NoCb
                /\ stopReturned' = TRUE
                /\ callsAtStop' = calls'
                /\ priceAtStop' = newPrice
                /\ timeAtStop' = newTime
           ELSE UNCHANGED <<timers, intervalId, onTick, lastSubscribed,
                            stopReturned, callsAtStop, priceAtStop, timeAtStop>>
        /\ UNCHANGED <<timerCb, nextTimerId>>
        /\ UNCHANGED <<aggVars, stepVars, cardVars, seedVars, placedVars, dragVars, liveVars, appVars, panelVars>>

NextFeed ==
    \/ \E cb \in Callbacks : subscribe(cb)
    \/ stop
    \/ \E id \in timers, noise \in Noises, rs \in BOOLEAN :
          \E sample \in resampled(regime) : TimerFire(id, noise, sample, rs)

-----------------------------------------------------------------------------
\* nextPrice under configurations other than DEFAULTS: options may set min and
\* max to any number, on or off the 1e-5 grid.

StepConfigs ==
    { [basePrice |-> 1000010, min |-> lo, max |-> hi, timeStepSeconds |-> 1,
       mrNum |-> MeanReversionNum, mrDen |-> MeanReversionDen]
      : lo \in {1000000, 1000004}, hi \in {1000020, 1000026} }

\* No tick step taken yet.
NoRegime == [type |-> "NONE", drift |-> 0, volatility |-> 0, ticksRemaining |-> 0]

InitStep ==
    /\ stepOpts \in StepConfigs
    /\ stepPrice \in {stepOpts.min, stepOpts.basePrice, stepOpts.max}
    /\ stepRegime \in sampleRegime
    /\ stepOut = -1
    /\ stepBefore = NoRegime

callNextPrice(noise) ==
    /\ stepOut = -1
    /\ stepOut' = nextPrice(stepPrice, stepRegime, stepOpts, noise)
    /\ stepRegime' = [stepRegime EXCEPT !.volatility = nextVolatility(stepRegime, noise)]
    /\ UNCHANGED <<stepOpts, stepPrice, stepBefore>>
    /\ UNCHANGED <<feedVars, aggVars, cardVars, seedVars, placedVars, dragVars, liveVars, appVars, panelVars>>

NextStep == \E noise \in Noises \cup {0} : callNextPrice(noise)

\* The body of a tick and of the seeding's inner loop, repeated:
\* price = nextPrice(price, regime, opts); evolveRegime(regime).
nextPriceThenEvolve(noise, sample) ==
    /\ stepOut = -1
    /\ stepPrice' = nextPrice(stepPrice, stepRegime, stepOpts, noise)
    /\ LET smoothed == [stepRegime EXCEPT !.volatility = nextVolatility(stepRegime, noise)]
       IN  stepRegime' = evolveRegime(smoothed, sample)
    /\ stepBefore' = stepRegime
    /\ UNCHANGED <<stepOpts, stepOut>>
    /\ UNCHANGED <<feedVars, aggVars, cardVars, seedVars, placedVars, dragVars, liveVars, appVars, panelVars>>

NextRegime ==
    \E noise \in Noises \cup {0} :
        \E sample \in resampled(stepRegime) : nextPriceThenEvolve(noise, sample)

-----------------------------------------------------------------------------
\* The trade card's draft (PlaceTradesCard) and App's position list.
\* Lots are in 0.01 lot units, card prices in 1e-5 price units.

Types == {"sl", "tp"}
Sides == {"buy", "sell"}

\* currentPrice, the card's price while the chart has reported none
FallbackPrice == 100000

\* The prices the chart reports through onPriceChange.
LivePrices == {104000}

\* Prices typed into a price input or resolved from a drag: below, at, between
\* and above the entry prices the model reaches.
PriceRequests == {98000, 100000, 102000, 104000, 106000}

\* Numbers typed into the position's lots input or picked on its slider;
\* 0 stands for a text that Number() turns into NaN or 0.
LotsInputs == {0, LOTS_MIN, 2 * LOTS_MIN}

\* Numbers typed into a level's lots input; 0 stands for a text that parseFloat
\* turns into NaN or 0.
LevelLotsInputs == {0, LOTS_MIN, 3 * LOTS_MIN}

\* Values picked on a level's lots slider, between its min and its max.
LotSliderValues == {1, LOTS_MIN}

\* Distances picked on a price slider, in 0.1 percent: sliderToPercent ranges
\* over [0.1, 100].
SliderPercents == {1, 20, 1000}

effectivePrice == IF livePrice = 0 THEN FallbackPrice ELSE livePrice

\* Math.round(value * 100) / 100 is the value itself on the 0.01 grid the inputs
\* are drawn from; what remains is the clamp.
roundLots(value) == Min2(LOTS_MAX, Max2(LOTS_MIN, value))

RECURSIVE sumLots(_)
sumLots(levels) ==
    IF levels = <<>> THEN 0 ELSE Head(levels).lots + sumLots(Tail(levels))

\* The position's lots, whatever its levels hold.
getRemainingLotsOfTotal(levels, totalLots) == totalLots
getRemainingLots(levels, totalLots) == Max2(0, totalLots - sumLots(levels))

\* levels.filter(l => l.id !== id).reduce((sum, l) => sum + l.lots, 0)
sumOfOthers(levels, id) ==
    sumLots(SelectSeq(levels, LAMBDA l : l.id # id))

\* entryPrice * (1 -/+ percent / 100), percent in 0.1 percent units
calculateSlTpPrice(entryPrice, tradeSide, type, percent) ==
    IF type = "sl"
    THEN IF tradeSide = "buy"
         THEN (entryPrice * (1000 - percent)) \div 1000
         ELSE (entryPrice * (1000 + percent)) \div 1000
    ELSE IF tradeSide = "buy"
         THEN (entryPrice * (1000 + percent)) \div 1000
         ELSE (entryPrice * (1000 - percent)) \div 1000

isValidSlTpPriceLax(tradeSide, entryPrice, lineType, newPrice) ==
    IF tradeSide = "buy"
    THEN IF lineType = "sl" THEN newPrice <= entryPrice ELSE newPrice >= entryPrice
    ELSE IF lineType = "sl" THEN newPrice >= entryPrice ELSE newPrice <= entryPrice
\* The rule with the requirements of the two level types exchanged.
isValidSlTpPriceSwapped(tradeSide, entryPrice, lineType, newPrice) ==
    IF tradeSide = "buy"
    THEN IF lineType = "sl" THEN newPrice > entryPrice ELSE newPrice < entryPrice
    ELSE IF lineType = "sl" THEN newPrice < entryPrice ELSE newPrice > entryPrice
isValidSlTpPrice(tradeSide, entryPrice, lineType, newPrice) ==
    IF tradeSide = "buy"
    THEN IF lineType = "sl" THEN newPrice < entryPrice ELSE newPrice > entryPrice
    ELSE IF lineType = "sl" THEN newPrice > entryPrice ELSE newPrice < entryPrice

creationLevels(type) == IF type = "sl" THEN creationSlLevels ELSE creationTpLevels
enabled(type) == IF type = "sl" THEN slEnabled ELSE tpEnabled

\* setCreationSlLevels / setCreationTpLevels
setCreationLevels(type, levels) ==
    IF type = "sl"
    THEN creationSlLevels' = levels /\ UNCHANGED creationTpLevels
    ELSE creationTpLevels' = levels /\ UNCHANGED creationSlLevels

\* setSlEnabled / setTpEnabled
setEnabled(type, on) ==
    IF type = "sl"
    THEN slEnabled' = on /\ UNCHANGED tpEnabled
    ELSE tpEnabled' = on /\ UNCHANGED slEnabled

\* `tp-${n}` / `sl-${n}`
levelId(type, n) == <<type, n>>

NoOp == [op |-> "none"]

InitCard ==
    /\ lots = LOTS_MIN
    /\ side = "buy"
    /\ livePrice = 0
    /\ slEnabled = FALSE
    /\ tpEnabled = FALSE
    /\ creationSlLevels = <<>>
    /\ creationTpLevels = <<>>
    /\ creationLotSliders = <<>>
    /\ trades = <<>>
    /\ nextTradeId = 1
    /\ lastOp = NoOp
    /\ lotsEdited = FALSE
    /\ levelRemoved = FALSE


\* ChartPanel reports a price: onPriceChange = setLivePrice.
setLivePrice(p) ==
    /\ livePrice' = p
    /\ lastOp' = NoOp
    /\ UNCHANGED <<lots, side, slEnabled, tpEnabled, creationSlLevels,
                   creationTpLevels, creationLotSliders, trades, nextTradeId,
                   lotsEdited, levelRemoved>>
    /\ UNCHANGED <<feedVars, aggVars, stepVars, seedVars, placedVars, dragVars, liveVars, appVars, panelVars>>

\* The position's lots slider (onValueChange) and input (onChange).
setLots(v) ==
    LET newLots == roundLots(IF v = 0 THEN LOTS_MIN ELSE v)
    IN  /\ lots' = newLots
        /\ lotsEdited' = (lotsEdited \/ newLots # lots)
        /\ lastOp' = NoOp
        /\ UNCHANGED <<side, livePrice, slEnabled, tpEnabled, creationSlLevels,
                       creationTpLevels, creationLotSliders, trades, nextTradeId,
                       levelRemoved>>
        /\ UNCHANGED <<feedVars, aggVars, stepVars, seedVars, placedVars, dragVars, liveVars, appVars, panelVars>>

\* The BUY / SELL buttons: the draft is reset.
clickSide(s) ==
    /\ side' = s
    /\ slEnabled' = FALSE
    /\ tpEnabled' = FALSE
    /\ creationSlLevels' = <<>>
    /\ creationTpLevels' = <<>>
    /\ lastOp' = NoOp
    /\ UNCHANGED <<lots, livePrice, creationLotSliders, trades,
                   nextTradeId, lotsEdited, levelRemoved>>
    /\ UNCHANGED <<feedVars, aggVars, stepVars, seedVars, placedVars, dragVars, liveVars, appVars, panelVars>>

\* "Add TP" / "Add SL": set*Enabled(true), after which the auto-create effect
\* finds the set empty and creates its first level 2% away from the price.
enableLevels(type) ==
    /\ ~enabled(type)
    /\ setEnabled(type, TRUE)
    /\ setCreationLevels(type,
          << [id |-> levelId(type, 1),
              price |-> calculateSlTpPrice(effectivePrice, side, type, 20),
              lots |-> lots,
              locked |-> FALSE] >>)
    /\ lastOp' = NoOp
    /\ UNCHANGED <<lots, side, livePrice, creationLotSliders, trades, nextTradeId,
                   lotsEdited, levelRemoved>>
    /\ UNCHANGED <<feedVars, aggVars, stepVars, seedVars, placedVars, dragVars, liveVars, appVars, panelVars>>

\* newLevels[idx] = { ...level, <field>: value }
withLots(levels, idx, value) == [levels EXCEPT ![idx].lots = value]
withPrice(levels, idx, value) == [levels EXCEPT ![idx].price = value]

\* The lots input of a draft level, onBlur with a non-empty text:
\* newLots = min(lots, max(0.01, parseFloat(text) || 0.01)), capped by what the
\* levels with another id leave.
commitLevelLots(type, idx, input) ==
    /\ idx \in 1..Len(creationLevels(type))
    /\ LET levels == creationLevels(type)
           level == levels[idx]
           maxAllowed == lots - sumOfOthers(levels, level.id)
           newLots == Min2(lots, Max2(1, IF input = 0 THEN 1 ELSE input))
           cappedLots == Min2(newLots, maxAllowed)
       IN  /\ setCreationLevels(type, withLots(levels, idx, cappedLots))
           /\ lastOp' = [op |-> "lots", stored |-> cappedLots, total |-> lots,
                         others |-> sumLots(levels) - level.lots]
    /\ UNCHANGED <<lots, side, livePrice, slEnabled, tpEnabled,
                   creationLotSliders, trades, nextTradeId, lotsEdited,
                   levelRemoved>>
    /\ UNCHANGED <<feedVars, aggVars, stepVars, seedVars, placedVars, dragVars, liveVars, appVars, panelVars>>

\* getMaxLotsForLevel: the slider's max is the position's lots, whatever the
\* other levels hold.
getMaxLotsForLevel(levels, totalLots, currentLevelId) == totalLots

\* The lots slider of a draft level, onValueChange: the value, capped, is kept
\* in creationLotSliders until the pointer is released.
changeLotSlider(type, idx, value) ==
    /\ idx \in 1..Len(creationLevels(type))
    /\ LET levels == creationLevels(type)
           level == levels[idx]
           maxAllowed == lots - sumOfOthers(levels, level.id)
           cappedValue == Min2(value, maxAllowed)
       IN  /\ value >= 1
           /\ value <= getMaxLotsForLevel(levels, lots, level.id)
           /\ creationLotSliders' =
                 [i \in DOMAIN creationLotSliders \cup {level.id} |->
                     IF i = level.id THEN cappedValue ELSE creationLotSliders[i]]
    /\ lastOp' = NoOp
    /\ UNCHANGED <<lots, side, livePrice, slEnabled, tpEnabled,
                   creationSlLevels, creationTpLevels, trades, nextTradeId,
                   lotsEdited, levelRemoved>>
    /\ UNCHANGED <<feedVars, aggVars, stepVars, seedVars, placedVars, dragVars, liveVars, appVars, panelVars>>

releaseLotSliderFresh(level) == level.lots
\* creationLotSliders[level.id] ?? level.lots
releaseLotSlider(level) ==
    IF level.id \in DOMAIN creationLotSliders
    THEN creationLotSliders[level.id]
    ELSE level.lots

\* The lots slider of a draft level, onPointerUp: the kept value is committed.
commitLotSlider(type, idx) ==
    /\ idx \in 1..Len(creationLevels(type))
    /\ LET levels == creationLevels(type)
           level == levels[idx]
           sliderValue == releaseLotSlider(level)
       IN  /\ setCreationLevels(type, withLots(levels, idx, sliderValue))
           /\ lastOp' = [op |-> "lots", stored |-> sliderValue, total |-> lots,
                         others |-> sumLots(levels) - level.lots]
    /\ UNCHANGED <<lots, side, livePrice, slEnabled, tpEnabled,
                   creationLotSliders, trades, nextTradeId, lotsEdited,
                   levelRemoved>>
    /\ UNCHANGED <<feedVars, aggVars, stepVars, seedVars, placedVars, dragVars, liveVars, appVars, panelVars>>

\* slPrice / tpPrice: the first level's price
firstPrice(type) ==
    IF Len(creationLevels(type)) > 0
    THEN creationLevels(type)[1].price
    ELSE IF type = "sl" THEN (effectivePrice * 98) \div 100
                        ELSE (effectivePrice * 102) \div 100

\* "+ Add TP Level" / "+ Add SL Level", shown while lots remain.
addLevel(type) ==
    /\ enabled(type)
    /\ Len(creationLevels(type)) < MaxLevels
    /\ getRemainingLots(creationLevels(type), lots) > 0
    /\ setCreationLevels(type,
          Append(creationLevels(type),
                 [id |-> levelId(type, Len(creationLevels(type)) + 1),
                  price |-> firstPrice(type),
                  lots |-> getRemainingLots(creationLevels(type), lots),
                  locked |-> FALSE]))
    /\ lastOp' = NoOp
    /\ UNCHANGED <<lots, side, livePrice, slEnabled, tpEnabled,
                   creationLotSliders, trades, nextTradeId, lotsEdited,
                   levelRemoved>>
    /\ UNCHANGED <<feedVars, aggVars, stepVars, seedVars, placedVars, dragVars, liveVars, appVars, panelVars>>

\* levels.filter((_, i) => i !== idx)
withoutIndex(levels, idx) ==
    [i \in 1..(Len(levels) - 1) |-> IF i < idx THEN levels[i] ELSE levels[i + 1]]

\* The remove button of a draft level; the set is disabled when it empties.
removeLevel(type, idx) ==
    /\ idx \in 1..Len(creationLevels(type))
    /\ LET newLevels == withoutIndex(creationLevels(type), idx)
       IN  /\ setCreationLevels(type, newLevels)
           /\ IF newLevels = <<>>
              THEN setEnabled(type, FALSE)
              ELSE UNCHANGED <<slEnabled, tpEnabled>>
    /\ levelRemoved' = TRUE
    /\ lastOp' = NoOp
    /\ UNCHANGED <<lots, side, livePrice, creationLotSliders, trades,
                   nextTradeId, lotsEdited>>
    /\ UNCHANGED <<feedVars, aggVars, stepVars, seedVars, placedVars, dragVars, liveVars, appVars, panelVars>>

\* The price input of a draft level, onBlur: any number above 0 is taken.
commitLevelPrice(type, idx, newPrice) ==
    /\ idx \in 1..Len(creationLevels(type))
    /\ IF newPrice > 0
       THEN setCreationLevels(type, withPrice(creationLevels(type), idx, newPrice))
       ELSE UNCHANGED <<creationSlLevels, creationTpLevels>>
    /\ lastOp' = NoOp
    /\ UNCHANGED <<lots, side, livePrice, slEnabled, tpEnabled,
                   creationLotSliders, trades, nextTradeId, lotsEdited,
                   levelRemoved>>
    /\ UNCHANGED <<feedVars, aggVars, stepVars, seedVars, placedVars, dragVars, liveVars, appVars, panelVars>>

\* A variant that takes the price only where it is valid for the draft's side.
setLevelPriceFromChartIfValid(type, newPrice, levelIndex) ==
    /\ IF /\ effectivePrice > 0
          /\ levelIndex \in 1..Len(creationLevels(type))
          /\ isValidSlTpPrice(side, effectivePrice, type, newPrice)
       THEN setCreationLevels(type, withPrice(creationLevels(type), levelIndex, newPrice))
       ELSE UNCHANGED <<creationSlLevels, creationTpLevels>>
    /\ lastOp' = NoOp
    /\ UNCHANGED <<lots, side, livePrice, slEnabled, tpEnabled,
                   creationLotSliders, trades, nextTradeId, lotsEdited,
                   levelRemoved>>

\* setSlPercentFromPrice / setTpPercentFromPrice: a drag of a preview line on
\* the chart hands over the price it resolved.  levelIndex counts from 1.
setLevelPriceFromChart(type, newPrice, levelIndex) ==
    /\ IF effectivePrice > 0 /\ levelIndex \in 1..Len(creationLevels(type))
       THEN setCreationLevels(type, withPrice(creationLevels(type), levelIndex, newPrice))
       ELSE UNCHANGED <<creationSlLevels, creationTpLevels>>
    /\ lastOp' = NoOp
    /\ UNCHANGED <<lots, side, livePrice, slEnabled, tpEnabled,
                   creationLotSliders, trades, nextTradeId, lotsEdited,
                   levelRemoved>>

\* onSlPriceDrag / onTpPriceDrag as the chart is given them: the card's
\* handler of the set, the chart's index counting from 0.
onPriceDrag(type, newPrice, levelIndex) ==
    setLevelPriceFromChart(type, newPrice, levelIndex + 1)

\* The same, called on its own.
setPercentFromPrice(type, newPrice, levelIndex) ==
    /\ setLevelPriceFromChart(type, newPrice, levelIndex)
    /\ UNCHANGED <<feedVars, aggVars, stepVars, seedVars, placedVars, dragVars, liveVars, appVars, panelVars>>

\* The price slider of a draft level, onPointerUp: the slider's position is a
\* distance from the price of the moment.
releasePriceSlider(type, idx, actualPercent) ==
    /\ idx \in 1..Len(creationLevels(type))
    /\ setCreationLevels(type,
          withPrice(creationLevels(type), idx,
                    calculateSlTpPrice(effectivePrice, side, type, actualPercent)))
    /\ lastOp' = NoOp
    /\ UNCHANGED <<lots, side, livePrice, slEnabled, tpEnabled,
                   creationLotSliders, trades, nextTradeId, lotsEdited,
                   levelRemoved>>
    /\ UNCHANGED <<feedVars, aggVars, stepVars, seedVars, placedVars, dragVars, liveVars, appVars, panelVars>>

\* handlePlaceTrade, then App's handleTradePlaced, while fewer than limit
\* positions are placed; nextTradeId stands for Date.now().
placeTradeUpTo(limit) ==
    /\ Len(trades) < limit
    /\ trades' = Append(trades,
                        [id |-> nextTradeId,
                         side |-> side,
                         lots |-> lots,
                         entryPrice |-> effectivePrice,
                         stopLossLevels |-> creationSlLevels,
                         takeProfitLevels |-> creationTpLevels,
                         lockedPosition |-> FALSE,
                         visible |-> TRUE])
    /\ nextTradeId' = nextTradeId + 1
    /\ slEnabled' = FALSE
    /\ tpEnabled' = FALSE
    /\ creationSlLevels' = <<>>
    /\ creationTpLevels' = <<>>
    /\ lastOp' = [op |-> "place"]
    /\ UNCHANGED <<lots, side, livePrice, creationLotSliders, lotsEdited,
                   levelRemoved>>
    /\ UNCHANGED <<feedVars, aggVars, stepVars, seedVars, placedVars, dragVars, liveVars, appVars, panelVars>>

handlePlaceTrade == placeTradeUpTo(MaxTrades)

tradeLevels(trade, type) ==
    IF type = "sl" THEN trade.stopLossLevels ELSE trade.takeProfitLevels

\* The write of an accepted price into the level of that id.
setLevelPrice(trade, lineType, id, newPrice) ==
    LET moved(levels) ==
            [i \in 1..Len(levels) |->
                IF levels[i].id = id
                THEN [levels[i] EXCEPT !.price = newPrice]
                ELSE levels[i]]
    IN  IF lineType = "sl"
        THEN [trade EXCEPT !.stopLossLevels = moved(trade.stopLossLevels)]
        ELSE [trade EXCEPT !.takeProfitLevels = moved(trade.takeProfitLevels)]

\* App's handleTradePriceUpdate: prev.map over the positions.
handleTradePriceUpdate(tradeId, lineType, id, newPrice) ==
    /\ trades # <<>>
    /\ trades' =
          [i \in 1..Len(trades) |->
              IF trades[i].id = tradeId
                 /\ isValidSlTpPrice(trades[i].side, trades[i].entryPrice,
                                     lineType, newPrice)
              THEN setLevelPrice(trades[i], lineType, id, newPrice)
              ELSE trades[i]]
    /\ lastOp' = [op |-> "price", tradeId |-> tradeId, lineType |-> lineType,
                  id |-> id, newPrice |-> newPrice, changed |-> trades' # trades]
    /\ UNCHANGED <<lots, side, livePrice, slEnabled, tpEnabled,
                   creationSlLevels, creationTpLevels, creationLotSliders,
                   nextTradeId, lotsEdited, levelRemoved>>
    /\ UNCHANGED <<feedVars, aggVars, stepVars, seedVars, placedVars, dragVars, liveVars, appVars, panelVars>>

-----------------------------------------------------------------------------
\* The levels of a placed position: the card's controls and App's handlers.

\* Lots asked for by a caller of onAddLevel other than the card's buttons.
AddLotsRequests == {5, 2 * LOTS_MIN}

\* Prices asked for a level of a placed position: one on either side of the
\* entry prices the model reaches.
LevelPriceRequests == {98000, 106000}

\* Texts typed into the lots input of a placed level, as parseFloat reads them;
\* 0 stands for a text that is not a number.
PlacedLotsInputs == {0, 5, 3 * LOTS_MIN}

\* Positions of the lots slider of a placed level.
PlacedLotSliderValues == {3, 2 * LOTS_MIN}

setTradeLevels(trade, type, levels) ==
    IF type = "sl"
    THEN [trade EXCEPT !.stopLossLevels = levels]
    ELSE [trade EXCEPT !.takeProfitLevels = levels]

\* An id no level of the set has.
freshLevelId(levels, type) ==
    LET used == { levels[k].id[2] : k \in 1..Len(levels) }
    IN  levelId(type, IF used = {} THEN 1
                      ELSE 1 + (CHOOSE n \in used : \A m \in used : m <= n))

\* addLevel(set, price, lots): lots clamped to the remaining capacity; nothing
\* is added when no capacity remains.
appendLevel(trade, type, newPrice, requested) ==
    LET levels == tradeLevels(trade, type)
        remaining == getRemainingLots(levels, trade.lots)
    IN  IF remaining <= 0
        THEN trade
        ELSE setTradeLevels(trade, type,
                 Append(levels, [id |-> freshLevelId(levels, type),
                                 price |-> newPrice,
                                 lots |-> Min2(requested, remaining),
                                 locked |-> FALSE]))

\* updateLots(set, levelId, newLots): clamped to
\* [0.01, position.lots - lots of the other levels]; a locked level keeps its
\* lots.
setLevelLots(trade, type, id, newLots) ==
    LET levels == tradeLevels(trade, type)
        clamped == Max2(1, Min2(newLots, trade.lots - sumOfOthers(levels, id)))
    IN  setTradeLevels(trade, type,
            [k \in 1..Len(levels) |->
                IF levels[k].id = id /\ ~levels[k].locked
                THEN [levels[k] EXCEPT !.lots = clamped]
                ELSE levels[k]])

\* toggleLock(set, levelId): the level's lock flag is set as asked.
setLevelLocked(trade, type, id, locked) ==
    LET levels == tradeLevels(trade, type)
    IN  setTradeLevels(trade, type,
            [k \in 1..Len(levels) |->
                IF levels[k].id = id
                THEN [levels[k] EXCEPT !.locked = locked]
                ELSE levels[k]])

\* setTrades(prev => prev.map(trade => trade.id === tradeId ? ... : trade))
mapTrade(tradeId, change(_)) ==
    [i \in 1..Len(trades) |->
        IF trades[i].id = tradeId THEN change(trades[i]) ELSE trades[i]]

\* What the handlers of the placed positions leave alone.
placedUnchanged ==
    /\ UNCHANGED <<lots, side, livePrice, slEnabled, tpEnabled,
                   creationSlLevels, creationTpLevels, creationLotSliders,
                   nextTradeId, lotsEdited, levelRemoved>>
    /\ UNCHANGED <<feedVars, aggVars, stepVars, seedVars, dragVars, liveVars, appVars, panelVars>>

\* App's onAddLevel(tradeId, type, price, lots)
onAddLevel(tradeId, type, newPrice, requested) ==
    /\ trades # <<>>
    /\ trades' = mapTrade(tradeId,
                          LAMBDA trade : appendLevel(trade, type, newPrice, requested))
    /\ lastOp' = [op |-> "add", tradeId |-> tradeId, lineType |-> type,
                  newPrice |-> newPrice, lots |-> requested]
    /\ placedUnchanged

\* App's onUpdateLevelLots(tradeId, type, levelId, lots)
onUpdateLevelLots(tradeId, type, id, newLots) ==
    /\ trades # <<>>
    /\ trades' = mapTrade(tradeId,
                          LAMBDA trade : setLevelLots(trade, type, id, newLots))
    /\ lastOp' = [op |-> "lots", tradeId |-> tradeId, lineType |-> type,
                  id |-> id, lots |-> newLots]
    /\ placedUnchanged

\* App's onToggleLevelLock(tradeId, type, levelId, locked)
onToggleLevelLock(tradeId, type, id, locked) ==
    /\ trades # <<>>
    /\ trades' = mapTrade(tradeId,
                          LAMBDA trade : setLevelLocked(trade, type, id, locked))
    /\ lastOp' = [op |-> "lock", tradeId |-> tradeId, lineType |-> type,
                  id |-> id, locked |-> locked]
    /\ placedUnchanged

\* basePrice + offset of "+ Add TP Level" / "+ Add SL Level": 0.001 away from
\* the last level, on the side the type and the position's side give.
nextLevelPrice(trade, type) ==
    LET levels == tradeLevels(trade, type)
        basePrice == levels[Len(levels)].price
        offset == IF (type = "tp") = (trade.side = "buy") THEN 100 ELSE -100
    IN  basePrice + offset

\* "+ Add TP Level" / "+ Add SL Level" of the placed position i, rendered below
\* the levels of a set that has some, while lots remain.
clickAddPlacedLevel(i, type) ==
    /\ i \in 1..Len(trades)
    /\ Len(tradeLevels(trades[i], type)) > 0
    /\ getRemainingLots(tradeLevels(trades[i], type), trades[i].lots) > 0
    /\ onAddLevel(trades[i].id, type, nextLevelPrice(trades[i], type),
                  getRemainingLots(tradeLevels(trades[i], type), trades[i].lots))
    /\ UNCHANGED placedVars

\* "Add SL" / "Add TP" of the placed position i, rendered while the set is
\* empty: a level 1 percent away from the entry price.
clickAddFirstLevel(i, type) ==
    /\ i \in 1..Len(trades)
    /\ tradeLevels(trades[i], type) = <<>>
    /\ onAddLevel(trades[i].id, type,
                  calculateSlTpPrice(trades[i].entryPrice, trades[i].side, type, 10),
                  getRemainingLots(tradeLevels(trades[i], type), trades[i].lots))
    /\ UNCHANGED placedVars

\* The lots input of level k of the placed position i, onBlur with a non-empty
\* text; the input is disabled while the level is locked.
blurPlacedLots(i, type, k, input) ==
    /\ i \in 1..Len(trades)
    /\ k \in 1..Len(tradeLevels(trades[i], type))
    /\ LET trade == trades[i]
           level == tradeLevels(trade, type)[k]
           maxAllowed == trade.lots - sumOfOthers(tradeLevels(trade, type), level.id)
           newLots == Min2(trade.lots, Max2(1, IF input = 0 THEN 1 ELSE input))
           cappedLots == Min2(newLots, maxAllowed)
       IN  /\ ~level.locked
           /\ onUpdateLevelLots(trade.id, type, level.id, cappedLots)
    /\ UNCHANGED placedVars

\* tradeLotSliders[trade.id]?.[level.id]
sliderKey(trade, level) == <<trade.id, level.id>>

\* The lots slider of a placed level, onValueChange: nothing while the level is
\* locked, else the value capped by what the other levels leave is stored.
changePlacedLotSlider(i, type, k, value) ==
    /\ i \in 1..Len(trades)
    /\ k \in 1..Len(tradeLevels(trades[i], type))
    /\ LET trade == trades[i]
           level == tradeLevels(trade, type)[k]
           maxAllowed == trade.lots - sumOfOthers(tradeLevels(trade, type), level.id)
           cappedValue == Min2(value, maxAllowed)
       IN  tradeLotSliders' =
              IF level.locked
              THEN tradeLotSliders
              ELSE [key \in DOMAIN tradeLotSliders \cup {sliderKey(trade, level)} |->
                       IF key = sliderKey(trade, level) THEN cappedValue
                       ELSE tradeLotSliders[key]]
    /\ lastOp' = NoOp
    /\ UNCHANGED <<lots, side, livePrice, slEnabled, tpEnabled,
                   creationSlLevels, creationTpLevels, creationLotSliders,
                   trades, nextTradeId, lotsEdited, levelRemoved>>
    /\ UNCHANGED <<feedVars, aggVars, stepVars, seedVars, dragVars, liveVars, appVars, panelVars>>

\* The lots slider of a placed level, onPointerUp: nothing while the level is
\* locked, else the stored value (the level's lots if none) is committed.
releasePlacedLotSlider(i, type, k) ==
    /\ i \in 1..Len(trades)
    /\ k \in 1..Len(tradeLevels(trades[i], type))
    /\ LET trade == trades[i]
           level == tradeLevels(trade, type)[k]
           sliderValue == IF sliderKey(trade, level) \in DOMAIN tradeLotSliders
                          THEN tradeLotSliders[sliderKey(trade, level)]
                          ELSE level.lots
       IN  IF level.locked
           THEN /\ lastOp' = NoOp
                /\ UNCHANGED trades
                /\ placedUnchanged
           ELSE onUpdateLevelLots(trade.id, type, level.id, sliderValue)
    /\ UNCHANGED placedVars

\* The lock button of level k of the placed position i.
clickLevelLock(i, type, k) ==
    /\ i \in 1..Len(trades)
    /\ k \in 1..Len(tradeLevels(trades[i], type))
    /\ LET level == tradeLevels(trades[i], type)[k]
       IN  onToggleLevelLock(trades[i].id, type, level.id, ~level.locked)
    /\ UNCHANGED placedVars

\* App.tsx holds one level and one lock flag per side of a position
\* (stopLoss / lockedSl, takeProfit / lockedTp); here a side holds a sequence of
\* levels, each with its flag, and what App.tsx does to the side's flag or
\* level is done to the levels of the side.
allLocked(levels, locked) ==
    [k \in 1..Len(levels) |-> [levels[k] EXCEPT !.locked = locked]]

\* A position lock that reaches the stop-loss side only.
withPositionLockOneSide(trade, locked) ==
    [trade EXCEPT !.lockedPosition = locked,
                  !.stopLossLevels = allLocked(@, locked)]

\* { ...trade, lockedPosition: locked, lockedSl: locked, lockedTp: locked }
withPositionLock(trade, locked) ==
    [trade EXCEPT !.lockedPosition = locked,
                  !.stopLossLevels = allLocked(@, locked),
                  !.takeProfitLevels = allLocked(@, locked)]

\* App's handleTogglePositionLock(tradeId, locked)
handleTogglePositionLock(tradeId, locked) ==
    /\ trades # <<>>
    /\ trades' = mapTrade(tradeId, LAMBDA trade : withPositionLock(trade, locked))
    /\ lastOp' = [op |-> "positionLock", tradeId |-> tradeId, locked |-> locked]
    /\ placedUnchanged

\* The lock button in the header of the placed position i.
clickPositionLock(i) ==
    /\ i \in 1..Len(trades)
    /\ handleTogglePositionLock(trades[i].id, ~trades[i].lockedPosition)
    /\ UNCHANGED placedVars

\* The side of the position without the level of that id.
withoutLevel(trade, type, id) ==
    setTradeLevels(trade, type,
                   SelectSeq(tradeLevels(trade, type), LAMBDA level : level.id # id))

\* A removal that clears the other side as well.
handleRemoveBothSides(tradeId, type, id) ==
    /\ trades # <<>>
    /\ trades' = mapTrade(tradeId,
                          LAMBDA trade : [withoutLevel(trade, type, id) EXCEPT
                                             !.stopLossLevels = IF type = "sl" THEN @ ELSE <<>>,
                                             !.takeProfitLevels = IF type = "tp" THEN @ ELSE <<>>])
    /\ lastOp' = [op |-> "remove", tradeId |-> tradeId, lineType |-> type, id |-> id]
    /\ placedUnchanged

\* App's handleRemoveSlTp, handed to the card as onRemoveLevel: no lock is
\* looked at.
handleRemoveSlTp(tradeId, type, id) ==
    /\ trades # <<>>
    /\ trades' = mapTrade(tradeId, LAMBDA trade : withoutLevel(trade, type, id))
    /\ lastOp' = [op |-> "remove", tradeId |-> tradeId, lineType |-> type, id |-> id]
    /\ placedUnchanged

\* The trash button of level k of the placed position i: onRemoveLevel, then
\* the level's slider value is dropped.
clickRemovePlacedLevel(i, type, k) ==
    /\ i \in 1..Len(trades)
    /\ k \in 1..Len(tradeLevels(trades[i], type))
    /\ LET level == tradeLevels(trades[i], type)[k]
       IN  /\ handleRemoveSlTp(trades[i].id, type, level.id)
           /\ tradeLotSliders' =
                  [key \in DOMAIN tradeLotSliders \ {sliderKey(trades[i], level)} |->
                      tradeLotSliders[key]]

\* App's handleTradeVisibilityChange(tradeId, visible)
handleTradeVisibilityChange(tradeId, visible) ==
    /\ trades # <<>>
    /\ trades' = mapTrade(tradeId, LAMBDA trade : [trade EXCEPT !.visible = visible])
    /\ lastOp' = [op |-> "visible", tradeId |-> tradeId, visible |-> visible]
    /\ placedUnchanged

\* A close that removes the first position, whatever the id.
handleCloseFirst(tradeId) ==
    /\ trades # <<>>
    /\ trades' = Tail(trades)
    /\ lastOp' = [op |-> "close", tradeId |-> tradeId]
    /\ placedUnchanged

\* App's handleCloseTrade(tradeId): prev.filter(trade => trade.id !== tradeId)
handleCloseTrade(tradeId) ==
    /\ trades # <<>>
    /\ trades' = SelectSeq(trades, LAMBDA trade : trade.id # tradeId)
    /\ lastOp' = [op |-> "close", tradeId |-> tradeId]
    /\ placedUnchanged

InitPlaced == tradeLotSliders = <<>>

-----------------------------------------------------------------------------
\* The chart's pointer handlers: dragging the lines of placed and draft levels.

\* The series' price scale: the price shown at pixel row 0 and the price
\* distance of one pixel row.
priceScale == [top |-> 110000, perPixel |-> 100]

\* series.priceToCoordinate / series.coordinateToPrice
priceToCoordinate(p) == (priceScale.top - p) \div priceScale.perPixel
coordinateToPrice(y) == priceScale.top - y * priceScale.perPixel

DRAG_THRESHOLD == 8

isNearPriceLine(mouseY, p) ==
    Abs(mouseY - priceToCoordinate(p)) <= DRAG_THRESHOLD

\* The rows of the pointer: far from every line of the first render, near both
\* take-profit lines, near the draft's line.
MouseRows == {40, 78, 110}

PreviewId == 0
NoTarget == [tradeId |-> -1]
NoPrice == -1

\* { type, tradeId: "preview", levelIndex } and { type, tradeId, levelId }
previewTarget(type, levelIndex) ==
    [type |-> type, tradeId |-> PreviewId, levelIndex |-> levelIndex]
placedTarget(type, tradeId, id) ==
    [type |-> type, tradeId |-> tradeId, levelId |-> id]

isPlaced(target) == target.tradeId > PreviewId

\* The position the chart shows, as first rendered: a stop-loss level and two
\* take-profit levels whose lines are less than the drag threshold apart.
ChartTrades ==
    << [id |-> 1, side |-> "buy", entryPrice |-> 100000,
        stopLossLevels |-> << [id |-> levelId("sl", 1), price |-> 98000,
                               locked |-> FALSE] >>,
        takeProfitLevels |-> << [id |-> levelId("tp", 1), price |-> 102000,
                                 locked |-> FALSE],
                                [id |-> levelId("tp", 2), price |-> 102500,
                                 locked |-> FALSE] >>] >>

\* The lines of a draft: none, or the line of one stop-loss level.
PreviewLineSets ==
    { <<>>, << [type |-> "sl", levelIndex |-> 0, price |-> 99000] >> }

\* "Sync preview trade lines": the lines of the previewTrade the card reports,
\* the stop-loss levels first, each with its index in its set; none when the
\* draft has neither set enabled.
previewLinesOf(slOn, tpOn, slLevels, tpLevels) ==
    IF ~(slOn \/ tpOn)
    THEN <<>>
    ELSE [k \in 1..Len(slLevels) |->
             [type |-> "sl", levelIndex |-> k - 1, price |-> slLevels[k].price]]
         \o [k \in 1..Len(tpLevels) |->
             [type |-> "tp", levelIndex |-> k - 1, price |-> tpLevels[k].price]]

\* The lines the sync effect gives a position: one per level, at its price.
linesOf(trade) ==
    [tradeId |-> trade.id,
     slLevels |-> [k \in 1..Len(trade.stopLossLevels) |->
                      [levelId |-> trade.stopLossLevels[k].id,
                       price |-> trade.stopLossLevels[k].price]],
     tpLevels |-> [k \in 1..Len(trade.takeProfitLevels) |->
                      [levelId |-> trade.takeProfitLevels[k].id,
                       price |-> trade.takeProfitLevels[k].price]]]

\* "Sync price lines with trades": skipped while a drag is in progress.
syncedLines(ts) ==
    IF isDraggingRef
    THEN priceLinesRef
    ELSE [i \in 1..Len(ts) |-> linesOf(ts[i])]

\* level?.locked, for level = levels.find(l => l.id === levelId)
isLockedNever(levels, id) == FALSE
isLocked(levels, id) ==
    \E k \in 1..Len(levels) :
        /\ levels[k].id = id
        /\ \A j \in 1..(k - 1) : levels[j].id # id
        /\ levels[k].locked

\* The lines handleMouseDown looks at, in its order: the draft's lines, then
\* per position the stop-loss lines and the take-profit lines of the positions
\* tradesRef knows.  skip says the line is passed over.
previewCandidates ==
    [i \in 1..Len(previewLinesRef) |->
        [target |-> previewTarget(previewLinesRef[i].type,
                                  previewLinesRef[i].levelIndex),
         price |-> previewLinesRef[i].price,
         skip |-> FALSE]]

levelCandidates(entry, type) ==
    LET lines == IF type = "sl" THEN entry.slLevels ELSE entry.tpLevels
        known == \E t \in 1..Len(tradesRef) : tradesRef[t].id = entry.tradeId
        trade == tradesRef[CHOOSE t \in 1..Len(tradesRef) :
                              tradesRef[t].id = entry.tradeId]
    IN  IF ~known THEN <<>>
        ELSE [k \in 1..Len(lines) |->
                [target |-> placedTarget(type, entry.tradeId, lines[k].levelId),
                 price |-> lines[k].price,
                 skip |-> isLocked(tradeLevels(trade, type), lines[k].levelId)]]

RECURSIVE placedCandidates(_)
placedCandidates(entries) ==
    IF entries = <<>> THEN <<>>
    ELSE levelCandidates(Head(entries), "sl")
         \o levelCandidates(Head(entries), "tp")
         \o placedCandidates(Tail(entries))

\* The first line near the row that is not passed over, or NoTarget.
hitTest(mouseY) ==
    LET all == previewCandidates \o placedCandidates(priceLinesRef)
        near == { k \in 1..Len(all) :
                    ~all[k].skip /\ isNearPriceLine(mouseY, all[k].price) }
    IN  IF near = {} THEN NoTarget
        ELSE all[CHOOSE k \in near : \A j \in near : k <= j].target

\* The levels tradesRef holds as locked, as targets.
lockedTargets ==
    UNION { UNION { { placedTarget(type, tradesRef[t].id,
                                   tradeLevels(tradesRef[t], type)[k].id) :
                        k \in { n \in 1..Len(tradeLevels(tradesRef[t], type)) :
                                   tradeLevels(tradesRef[t], type)[n].locked } } :
                    type \in Types } :
            t \in 1..Len(tradesRef) }

\* Nothing dragged yet.  locked are the levels that were locked at the
\* pointer-down that started the drag; moved and movedPrice are the
\* target and the price of the last movement of a placed level's line; calls
\* are the invocations of onTradePriceUpdate and previewCall is the last
\* invocation of onSlPriceDrag / onTpPriceDrag, all since that pointer-down.
NoGesture ==
    [locked |-> {}, moved |-> NoTarget, movedPrice |-> NoPrice,
     calls |-> <<>>, previewCall |-> NoTarget]

InitDrag ==
    /\ tradesRef = ChartTrades
    /\ priceLinesRef = [i \in 1..Len(ChartTrades) |-> linesOf(ChartTrades[i])]
    /\ previewLinesRef \in PreviewLineSets
    /\ isDraggingRef = FALSE
    /\ dragTargetRef = NoTarget
    /\ dragFinalPriceRef = NoPrice
    /\ scrollEnabled = TRUE
    /\ pointerEvent = [type |-> "none", row |-> 0]
    /\ gesture = NoGesture

dragUnchanged ==
    UNCHANGED <<feedVars, aggVars, stepVars, cardVars, seedVars, placedVars, liveVars, appVars, panelVars>>

handleMouseDown(mouseY) ==
    LET hit == hitTest(mouseY)
    IN  /\ pointerEvent' = [type |-> "down", row |-> mouseY]
        /\ IF hit = NoTarget
           THEN UNCHANGED <<isDraggingRef, dragTargetRef, scrollEnabled, gesture>>
           ELSE /\ isDraggingRef' = TRUE
                /\ dragTargetRef' = hit
                /\ scrollEnabled' = FALSE
                /\ gesture' = IF isDraggingRef
                              THEN gesture
                              ELSE [NoGesture EXCEPT !.locked = lockedTargets]
        /\ UNCHANGED <<tradesRef, priceLinesRef, previewLinesRef, dragFinalPriceRef>>
        /\ dragUnchanged

\* line?.applyOptions({ price: newPrice }) on the line of the target, if the
\* position has lines and the level has one.
withLinePrice(entries, target, newPrice) ==
    LET moved(lines) ==
            [k \in 1..Len(lines) |->
                IF lines[k].levelId = target.levelId
                THEN [lines[k] EXCEPT !.price = newPrice]
                ELSE lines[k]]
    IN  [i \in 1..Len(entries) |->
            IF entries[i].tradeId # target.tradeId THEN entries[i]
            ELSE IF target.type = "sl"
                 THEN [entries[i] EXCEPT !.slLevels = moved(entries[i].slLevels)]
                 ELSE [entries[i] EXCEPT !.tpLevels = moved(entries[i].tpLevels)]]

\* handleMouseMove.  For a line of the draft it calls onSlPriceDrag /
\* onTpPriceDrag, which is the card's setSlPercentFromPrice /
\* setTpPercentFromPrice; the card then reports its draft anew and the preview
\* lines are made again from it.
handleMouseMove(mouseY) ==
    LET newPrice == coordinateToPrice(mouseY)
        target == dragTargetRef
    IN  /\ pointerEvent' = [type |-> "move", row |-> mouseY]
        /\ IF isDraggingRef /\ target # NoTarget
           THEN IF ~isPlaced(target)
                THEN /\ gesture' = [gesture EXCEPT !.previewCall =
                                       [type |-> target.type, price |-> newPrice,
                                        levelIndex |-> target.levelIndex]]
                     /\ onPriceDrag(target.type, newPrice, target.levelIndex)
                     /\ previewLinesRef' =
                           IF creationSlLevels' = creationSlLevels
                              /\ creationTpLevels' = creationTpLevels
                           THEN previewLinesRef
                           ELSE previewLinesOf(slEnabled, tpEnabled,
                                               creationSlLevels', creationTpLevels')
                     /\ UNCHANGED <<dragFinalPriceRef, priceLinesRef>>
                ELSE /\ dragFinalPriceRef' = newPrice
                     /\ priceLinesRef' = withLinePrice(priceLinesRef, target, newPrice)
                     /\ gesture' = [gesture EXCEPT !.moved = target,
                                                   !.movedPrice = newPrice]
                     /\ UNCHANGED <<previewLinesRef, cardVars>>
           ELSE UNCHANGED <<dragFinalPriceRef, priceLinesRef, gesture,
                            previewLinesRef, cardVars>>
        /\ UNCHANGED <<tradesRef, isDraggingRef, dragTargetRef, scrollEnabled>>
        /\ UNCHANGED <<feedVars, aggVars, stepVars, seedVars, placedVars, liveVars, appVars, panelVars>>

\* What App's handleTradePriceUpdate makes of the positions: prev.map, with
\* the price written where the position is the named one and the price is
\* valid for it.
tradesAfterUpdate(ts, call) ==
    [i \in 1..Len(ts) |->
        IF ts[i].id = call.tradeId
           /\ isValidSlTpPrice(ts[i].side, ts[i].entryPrice, call.type, call.price)
        THEN setLevelPrice(ts[i], call.type, call.levelId, call.price)
        ELSE ts[i]]

\* handleMouseUp; `event` is "up", or "leave" when handleMouseLeave calls it.
\* onTradePriceUpdate sets App's positions anew, so a render follows the
\* handler: tradesRef is set and the lines are synced, the drag being over.
handleMouseUp(event) ==
    LET target == dragTargetRef
        finalPrice == dragFinalPriceRef
        call == [tradeId |-> target.tradeId, type |-> target.type,
                 levelId |-> target.levelId, price |-> finalPrice]
    IN  /\ pointerEvent' = [type |-> event,
                             row |-> IF event = "leave" THEN 0 ELSE pointerEvent.row]
        /\ IF isDraggingRef
           THEN /\ IF target # NoTarget /\ isPlaced(target) /\ finalPrice # NoPrice
                   THEN /\ gesture' = [gesture EXCEPT !.calls = Append(@, call)]
                        /\ tradesRef' = tradesAfterUpdate(tradesRef, call)
                        /\ priceLinesRef' =
                              [i \in 1..Len(tradesRef') |-> linesOf(tradesRef'[i])]
                   ELSE UNCHANGED <<gesture, tradesRef, priceLinesRef>>
                /\ isDraggingRef' = FALSE
                /\ dragTargetRef' = NoTarget
                /\ dragFinalPriceRef' = NoPrice
                /\ scrollEnabled' = TRUE
           ELSE UNCHANGED <<gesture, isDraggingRef, dragTargetRef, scrollEnabled,
                            dragFinalPriceRef, tradesRef, priceLinesRef>>
        /\ UNCHANGED previewLinesRef
        /\ dragUnchanged

handleMouseLeave == handleMouseUp("leave")

\* The positions with the lock of level k of the set `type` of position t
\* flipped.
withLockFlipped(ts, t, type, k) ==
    [ts EXCEPT ![t] = setTradeLevels(ts[t], type,
                          [tradeLevels(ts[t], type) EXCEPT ![k].locked = ~@])]

\* A render with a new `trades` prop: tradesRef.current = trades, then the sync
\* of the price lines.
renderTrades(newTrades) ==
    /\ tradesRef' = newTrades
    /\ priceLinesRef' = syncedLines(newTrades)
    /\ pointerEvent' = [pointerEvent EXCEPT !.type = "render"]
    /\ UNCHANGED <<previewLinesRef, isDraggingRef, dragTargetRef,
                   dragFinalPriceRef, scrollEnabled, gesture>>
    /\ dragUnchanged

\* A render with a new previewTrade prop, after the card changed its draft:
\* the preview lines are removed and made again.
renderPreview ==
    /\ previewLinesRef' = previewLinesOf(slEnabled, tpEnabled,
                                         creationSlLevels, creationTpLevels)
    /\ pointerEvent' = [pointerEvent EXCEPT !.type = "render"]
    /\ UNCHANGED <<tradesRef, priceLinesRef, isDraggingRef, dragTargetRef,
                   dragFinalPriceRef, scrollEnabled, gesture>>
    /\ dragUnchanged

\* The pointer events in any order, a button being pressed or released where
\* the pointer is, and between drags the renders that follow a click on a
\* level's lock button.
NextDrag ==
    \/ \E mouseY \in MouseRows : handleMouseMove(mouseY)
    \/ \E mouseY \in MouseRows :
          pointerEvent.row = mouseY /\ handleMouseDown(mouseY)
    \/ pointerEvent.row # 0 /\ handleMouseUp("up")
    \/ pointerEvent.row # 0 /\ handleMouseLeave
    \/ \E t \in 1..Len(tradesRef), type \in Types :
          \E k \in 1..Len(tradeLevels(tradesRef[t], type)) :
             ~isDraggingRef /\ renderTrades(withLockFlipped(tradesRef, t, type, k))

-----------------------------------------------------------------------------
\* The live feed: createPolygonForexStream (part_006:89-187).

\* import.meta.env.VITE_POLYGON_API_KEY: undefined, or a string of blanks and
\* other characters.
NoKey == [defined |-> FALSE, chars |-> <<>>]
ApiKeys ==
    { NoKey }
    \cup { [defined |-> TRUE, chars |-> chars] :
             chars \in { <<>>, <<" ">>, <<" ", " ">>, <<"k">>, <<" ", "k">> } }

RECURSIVE trimStart(_)
trimStart(chars) ==
    IF chars # <<>> /\ Head(chars) = " " THEN trimStart(Tail(chars)) ELSE chars

RECURSIVE trimEnd(_)
trimEnd(chars) ==
    IF chars # <<>> /\ chars[Len(chars)] = " "
    THEN trimEnd(SubSeq(chars, 1, Len(chars) - 1))
    ELSE chars

\* String.prototype.trim
trim(chars) == trimEnd(trimStart(chars))

\* A key test that takes any non-empty string for a key.
hasApiKeyUntrimmed(key) == key.defined /\ key.chars # <<>>

\* apiKey?.trim() is truthy
hasApiKey(key) == key.defined /\ trim(key.chars) # <<>>

\* A socket as new WebSocket(url) returns it, with the server's side of it:
\* whether the server received an auth action on it, and whether it holds a
\* CAS subscription.  failed: the connection was failed, so that an error
\* event precedes its close event.
NewSocket ==
    [readyState |-> "CONNECTING", failed |-> FALSE, authSent |-> FALSE, cas |-> FALSE]

\* WebSocket.close(): a socket still connecting fails its connection.
closed(sock) ==
    IF sock.readyState = "CONNECTING"
    THEN [sock EXCEPT !.readyState = "CLOSING", !.failed = TRUE]
    ELSE IF sock.readyState = "OPEN" THEN [sock EXCEPT !.readyState = "CLOSING"]
    ELSE sock

\* ws!.send(JSON.stringify({action, ...})) with ws = w: throws when ws is null
\* or still connecting, reaches the server when open, is dropped otherwise.
\* The server takes a subscription only on a socket that sent its auth.
send(socks, w, action) ==
    IF w = 0 \/ (w # 0 /\ socks[w].readyState = "CONNECTING")
    THEN [sockets |-> socks, threw |-> TRUE]
    ELSE IF socks[w].readyState # "OPEN"
    THEN [sockets |-> socks, threw |-> FALSE]
    ELSE IF action = "auth"
    THEN [sockets |-> [socks EXCEPT ![w].authSent = TRUE], threw |-> FALSE]
    ELSE [sockets |-> [socks EXCEPT ![w].cas = socks[w].authSent], threw |-> FALSE]

\* A variant of stop() that keeps the subscriber.
stoppedKeepingOnTick(live) ==
    [live EXCEPT !.sockets = IF live.ws # 0
                             THEN [live.sockets EXCEPT ![live.ws] = closed(@)]
                             ELSE live.sockets,
                 !.ws = 0,
                 !.subscribed = FALSE]

\* The closure state after stop() (part_006:102-109).
stopped(live) ==
    [live EXCEPT !.sockets = IF live.ws # 0
                             THEN [live.sockets EXCEPT ![live.ws] = closed(@)]
                             ELSE live.sockets,
                 !.ws = 0,
                 !.onTick = NoCb,
                 !.subscribed = FALSE]

\* The closure state after ws.onclose (part_006:181-184).
afterOnClose(live) == [live EXCEPT !.ws = 0, !.subscribed = FALSE]

\* Messages of the server.  Absent stands for a field that is not a number.
Absent == -1
CasStarts == {1500, 2000}
CasClose == 1085000
Connected == [ev |-> "status", status |-> "connected", s |-> Absent, c |-> Absent]
AuthSuccess == [ev |-> "status", status |-> "auth_success", s |-> Absent, c |-> Absent]
AuthFailed == [ev |-> "status", status |-> "auth_failed", s |-> Absent, c |-> Absent]
Cas(start) == [ev |-> "CAS", status |-> "none", s |-> start, c |-> CasClose]
CasNoClose == [ev |-> "CAS", status |-> "none", s |-> 1500, c |-> Absent]
\* The JSON value null as an element of an array.
NullMsg == [ev |-> "null", status |-> "null", s |-> Absent, c |-> Absent]

\* The frames a socket may receive: one message, or an array of two; parses
\* is FALSE for a frame that is not JSON.
Frame(msgs) == [parses |-> TRUE, msgs |-> msgs]
Garbage == [parses |-> FALSE, msgs |-> <<>>]
LiveFrames ==
    { Garbage }
    \cup { Frame(<<msg>>) :
             msg \in {Connected, AuthSuccess, AuthFailed, CasNoClose}
                     \cup { Cas(start) : start \in CasStarts } }
    \cup { Frame(<<AuthSuccess, Cas(1500)>>), Frame(<<Cas(1500), Cas(2000)>>),
           Frame(<<CasNoClose, Cas(2000)>>), Frame(<<NullMsg, Cas(2000)>>) }

\* A frame that is not JSON, or that holds an element that is no message.
isMalformed(frame) ==
    \/ ~frame.parses
    \/ \E n \in 1..Len(frame.msgs) : frame.msgs[n] \in {NullMsg, CasNoClose}

\* The server sends what its side of the socket allows: an answer to an auth
\* only after the auth, aggregates only under a subscription.
serverSends(sock, frame) ==
    \A n \in 1..Len(frame.msgs) :
       /\ frame.msgs[n].status \in {"auth_success", "auth_failed"} => sock.authSent
       /\ frame.msgs[n].ev = "CAS" => sock.cas

\* handleMessage (part_006:146-175) on the closure state; threw: reading
\* msg.status of null threw, or ws!.send threw.
handleMessage(live, msg) ==
    IF msg = NullMsg
    THEN [live EXCEPT !.threw = TRUE]
    ELSE IF msg.status \in {"auth_success", "connected"}
    THEN IF msg.status = "auth_success" /\ ~live.subscribed
         THEN LET sent == send(live.sockets, live.ws, "subscribe")
              IN  [live EXCEPT !.subscribed = TRUE,
                               !.sockets = sent.sockets,
                               !.threw = sent.threw]
         ELSE live
    ELSE IF msg.status = "auth_failed" \/ msg.ev = "status"
    THEN live
    ELSE IF msg.ev = "CAS" /\ msg.s # Absent /\ msg.c # Absent
    THEN IF live.onTick # NoCb
         THEN [live EXCEPT !.ticks = Append(@, [to |-> live.onTick,
                                                time |-> msg.s \div 1000,
                                                price |-> msg.c])]
         ELSE live
    ELSE live

\* The for loop of ws.onmessage (part_006:131-143): an exception ends it.
RECURSIVE handleMessages(_, _)
handleMessages(live, msgs) ==
    IF msgs = <<>> \/ live.threw THEN live
    ELSE handleMessages(handleMessage(live, Head(msgs)), Tail(msgs))

\* What the log holds of the last event: its socket, and for a frame the
\* subscriber as the frame arrived, the ticks it delivered, and whether its
\* handling ended in the catch.
NoLast == [socket |-> 0, frame |-> Garbage, onTick |-> NoCb, delivered |-> <<>>,
           threw |-> FALSE]

MaxLiveSubscribes == 2
MaxLiveTicks == 1

\* The closure state as one record, and the variables set from one.
closure ==
    [ws |-> ws, onTick |-> liveOnTick, subscribed |-> subscribed,
     sockets |-> sockets, ticks |-> <<>>, threw |-> FALSE]

setClosure(live) ==
    /\ ws' = live.ws
    /\ liveOnTick' = live.onTick
    /\ subscribed' = live.subscribed
    /\ sockets' = live.sockets

InitLive ==
    /\ apiKey \in ApiKeys
    /\ ws = 0
    /\ liveOnTick = NoCb
    /\ subscribed = FALSE
    /\ sockets = <<>>
    /\ liveLog = [op |-> "init", subscribes |-> 0, stopReturned |-> FALSE,
                  failed |-> FALSE, ticks |-> <<>>, uncaught |-> {},
                  malformed |-> FALSE, last |-> NoLast, stops |-> 0]

liveUnchanged ==
    UNCHANGED <<feedVars, aggVars, stepVars, cardVars, seedVars, placedVars, dragVars,
                appVars, panelVars>>

\* subscribe(callback) (part_006:111-185)
liveSubscribe(callback) ==
    /\ liveLog.subscribes < MaxLiveSubscribes
    /\ liveOnTick' = callback
    /\ IF ~hasApiKey(apiKey)
       THEN UNCHANGED <<ws, sockets>>
       ELSE IF ws # 0 /\ sockets[ws].readyState = "OPEN"
       THEN UNCHANGED <<ws, sockets>>
       ELSE /\ sockets' = Append(sockets, NewSocket)
            /\ ws' = Len(sockets) + 1
    /\ liveLog' = [liveLog EXCEPT !.op = "subscribe", !.stops = 0,
                                  !.subscribes = @ + 1,
                                  !.stopReturned = FALSE,
                                  !.failed = FALSE,
                                  !.malformed = FALSE,
                                  !.last = NoLast]
    /\ UNCHANGED <<apiKey, subscribed>>
    /\ liveUnchanged

\* stop() called by the consumer (part_006:102-109)
liveStop ==
    /\ setClosure(stopped(closure))
    /\ liveLog' = [liveLog EXCEPT !.op = "stop", !.stopReturned = TRUE, !.last = NoLast,
                                  !.stops = Min2(@ + 1, 2)]
    /\ UNCHANGED apiKey
    /\ liveUnchanged

\* The connection of socket s is established: ws.onopen (part_006:122-129).
socketOpens(s) ==
    /\ sockets[s].readyState = "CONNECTING"
    /\ LET opened == [sockets EXCEPT ![s].readyState = "OPEN"]
           sent == send(opened, ws, "auth")
       IN  /\ sockets' = sent.sockets
           /\ liveLog' = [liveLog EXCEPT
                  !.op = "open", !.stops = 0,
                  !.last = [NoLast EXCEPT !.socket = s],
                  !.uncaught = IF sent.threw
                               THEN @ \cup {[handler |-> "onopen", afterFailure |-> liveLog.failed]}
                               ELSE @]
    /\ UNCHANGED <<apiKey, ws, liveOnTick, subscribed>>
    /\ liveUnchanged

\* Socket s receives a frame: ws.onmessage (part_006:131-143).  A frame that
\* does not parse, and an exception of a handler, end in the catch.
socketReceives(s, frame) ==
    /\ sockets[s].readyState \in {"OPEN", "CLOSING"}
    /\ serverSends(sockets[s], frame)
    /\ Len(liveLog.ticks) < MaxLiveTicks
    /\ LET live == IF frame.parses THEN handleMessages(closure, frame.msgs) ELSE closure
       IN  /\ setClosure(live)
           /\ liveLog' = [liveLog EXCEPT
                  !.op = "message", !.stops = 0,
                  !.last = [socket |-> s, frame |-> frame, onTick |-> liveOnTick,
                            delivered |-> live.ticks, threw |-> live.threw],
                  !.malformed = @ \/ isMalformed(frame),
                  !.ticks = @ \o [n \in 1..Len(live.ticks) |->
                                    [to |-> live.ticks[n].to,
                                     time |-> live.ticks[n].time,
                                     price |-> live.ticks[n].price,
                                     afterFailure |-> liveLog.failed]]]
    /\ UNCHANGED apiKey
    /\ liveUnchanged

\* The transport of socket s fails: the socket is closed, then ws.onerror
\* (part_006:177-179) and ws.onclose (part_006:181-184) run.
transportFails(s) ==
    /\ sockets[s].readyState \in {"CONNECTING", "OPEN", "CLOSING"}
    /\ setClosure(afterOnClose(stopped(
           [closure EXCEPT !.sockets[s].readyState = "CLOSED"])))
    /\ liveLog' = [liveLog EXCEPT !.op = "error", !.stops = 0, !.failed = TRUE, !.last = [NoLast EXCEPT !.socket = s]]
    /\ UNCHANGED apiKey
    /\ liveUnchanged

\* The server closes socket s: ws.onclose runs.
serverCloses(s) ==
    /\ sockets[s].readyState = "OPEN"
    /\ setClosure(afterOnClose([closure EXCEPT !.sockets[s].readyState = "CLOSED"]))
    /\ liveLog' = [liveLog EXCEPT !.op = "close", !.stops = 0, !.failed = TRUE, !.last = [NoLast EXCEPT !.socket = s]]
    /\ UNCHANGED apiKey
    /\ liveUnchanged

\* The close that ws.close() started completes: ws.onerror first when the
\* connection was failed, then ws.onclose.
closeCompletes(s) ==
    /\ sockets[s].readyState = "CLOSING"
    /\ LET shut == [closure EXCEPT !.sockets[s].readyState = "CLOSED"]
       IN  setClosure(afterOnClose(IF sockets[s].failed THEN stopped(shut) ELSE shut))
    /\ liveLog' = [liveLog EXCEPT !.op = "closed", !.stops = 0, !.last = [NoLast EXCEPT !.socket = s]]
    /\ UNCHANGED apiKey
    /\ liveUnchanged

NextLive ==
    \/ \E callback \in Callbacks : liveSubscribe(callback)
    \/ liveStop
    \/ \E s \in 1..Len(sockets) : socketOpens(s)
    \/ \E s \in 1..Len(sockets), frame \in LiveFrames : socketReceives(s, frame)
    \/ \E s \in 1..Len(sockets) : transportFails(s)
    \/ \E s \in 1..Len(sockets) : serverCloses(s)
    \/ \E s \in 1..Len(sockets) : closeCompletes(s)

-----------------------------------------------------------------------------
\* History seeding: generateInitialM5Bars, and the chart's use of it.

\* Math.floor(nowSec / 300) * 300 - (barCount - 1) * 300: the last bar would be
\* the bucket of now.
startBarTimeInclusive(nowSec, barCount) ==
    bucketOf(nowSec) - (barCount - 1) * M5_PERIOD_SECONDS
\* const startBarTime
startBarTime(nowSec, barCount) ==
    bucketOf(nowSec) - barCount * M5_PERIOD_SECONDS

\* The k-th noise draw: the given draws, repeated in a cycle.
noiseAt(noises, k) == noises[((k - 1) % Len(noises)) + 1]

\* The inner step taken from the bar's open instead of the running price.
innerStepFromOpen(acc, opts, noise, sample) ==
    LET newPrice == nextPrice(acc.open, acc.regime, opts, noise)
        smoothed == [acc.regime EXCEPT !.volatility = nextVolatility(acc.regime, noise)]
    IN  [acc EXCEPT !.price = newPrice,
                    !.regime = evolveRegime(smoothed, sample),
                    !.high = Max2(acc.high, newPrice),
                    !.low = Min2(acc.low, newPrice),
                    !.steps = acc.steps + 1]
\* One pass of the inner loop's body: price = nextPrice(price, regime, opts);
\* evolveRegime(regime); high = max(high, price); low = min(low, price).
innerStep(acc, opts, noise, sample) ==
    LET newPrice == nextPrice(acc.price, acc.regime, opts, noise)
        smoothed == [acc.regime EXCEPT !.volatility = nextVolatility(acc.regime, noise)]
    IN  [acc EXCEPT !.price = newPrice,
                    !.regime = evolveRegime(smoothed, sample),
                    !.high = Max2(acc.high, newPrice),
                    !.low = Min2(acc.low, newPrice),
                    !.steps = acc.steps + 1]

\* The body of the inner loop with its bookkeeping: acc.k counts the inner
\* steps since the call started, and the prices of the first MaxDraws steps are
\* kept in acc.path.
innerBody(acc, opts, noises, sample) ==
    LET next == innerStep(acc, opts, noiseAt(noises, acc.k + 1), sample)
    IN  [next EXCEPT !.k = acc.k + 1,
                     !.path = IF acc.k < MaxDraws
                              THEN Append(acc.path, next.price)
                              ELSE acc.path]

\* The one element of a one-element set; binding a loop's intermediate result
\* this way has it computed once.
Only(S) == CHOOSE x \in S : TRUE

\* for (let t = 0; t < n; t++) innerBody: n passes of the body, one after the
\* other, as the first half of the passes followed by the rest.
RECURSIVE innerLoop(_, _, _, _, _)
innerLoop(acc, n, opts, noises, sample) ==
    IF n = 0 THEN acc
    ELSE IF n = 1 THEN innerBody(acc, opts, noises, sample)
    ELSE Only({ innerLoop(half, n - (n \div 2), opts, noises, sample) :
                half \in {innerLoop(acc, n \div 2, opts, noises, sample)} })

\* The bar pushed after the inner loop: the four prices rounded, with
\* time = startBarTime + i * M5_PERIOD_SECONDS; steps counts the passes of the
\* inner loop that made it.
pushedBar(acc, barTime) ==
    [time |-> barTime,
     open |-> roundToPrecision(acc.open, 1),
     high |-> roundToPrecision(acc.high, 1),
     low |-> roundToPrecision(acc.low, 1),
     close |-> roundToPrecision(acc.price, 1),
     steps |-> acc.steps]

\* for (let i = 0; i < barCount; i++): run is the price, the regime and the
\* bars pushed so far.
RECURSIVE outerLoop(_, _, _, _, _, _, _)
outerLoop(run, i, barCount, start, opts, noises, sample) ==
    IF i >= barCount
    THEN run
    ELSE Only({ outerLoop([price |-> acc.price, regime |-> acc.regime,
                           bars |-> Append(run.bars,
                                      pushedBar(acc, start + i * M5_PERIOD_SECONDS)),
                           k |-> acc.k, path |-> acc.path],
                          i + 1, barCount, start, opts, noises, sample) :
                acc \in {innerLoop([price |-> run.price, regime |-> run.regime,
                                    open |-> run.price, high |-> run.price,
                                    low |-> run.price, steps |-> 0,
                                    k |-> run.k, path |-> run.path],
                                   M5_PERIOD_SECONDS, opts, noises, sample)} })

\* generateInitialM5Bars(barCount, options) at time nowSec, with the regime and
\* the draws its calls of sampleRegime() and Math.random() return.  Each bar
\* carries the number of inner steps it was built from.
generateInitialM5Bars(barCount, opts, nowSec, regime0, noises, sample) ==
    outerLoop([price |-> opts.basePrice, regime |-> regime0, bars |-> <<>>,
               k |-> 0, path |-> <<>>],
              0, barCount, startBarTime(nowSec, barCount), opts, noises, sample)

InitSeed ==
    /\ seedCount \in 1..MaxBars
    /\ seedRegime \in sampleRegime
    /\ seedNoises \in [1..MaxDraws -> Noises]
    /\ seedSample \in sampleRegime
    /\ initialBars = <<>>
    /\ seedPath = <<>>
    /\ mockOptions = [initialPrice |-> 0]
    /\ chartPc = "loading"

\* mockOptions = {}: the stream starts at basePrice.
seededOptionsEmpty(lastClose) == [initialPrice |-> 0]
\* mockOptions = { initialPrice: lastClose }
seededOptions(lastClose) == [initialPrice |-> lastClose]

\* The chart's history init on the simulated source:
\* initialBars = generateInitialM5Bars(M5_HISTORY_BAR_COUNT, {});
\* lastClose = initialBars[initialBars.length - 1].close; mockOptions = ...
chartSeed ==
    /\ chartPc = "loading"
    /\ LET out == generateInitialM5Bars(seedCount, DEFAULTS, NowSec, seedRegime,
                                        seedNoises, seedSample)
           lastClose == out.bars[Len(out.bars)].close
       IN  /\ initialBars' = out.bars
           /\ seedPath' = out.path
           /\ mockOptions' = seededOptions(lastClose)
    /\ chartPc' = "seeded"
    /\ UNCHANGED <<seedCount, seedRegime, seedNoises, seedSample>>
    /\ UNCHANGED <<feedVars, aggVars, stepVars, cardVars, placedVars, dragVars, liveVars, appVars, panelVars>>

\* createMockForexStream("EURUSD", mockOptions) and stream.subscribe(callback):
\* a new closure with price = opts.initialPrice ?? opts.basePrice and a fresh
\* regime, and its first interval.  No stream was subscribed before.
chartStartStream(callback, regime0) ==
    /\ chartPc = "seeded"
    /\ nextTimerId = 1
    /\ price' = (IF mockOptions.initialPrice # 0 THEN mockOptions.initialPrice
                                                 ELSE DEFAULTS.basePrice)
    /\ timeSec' = NowSec
    /\ regime' = regime0
    /\ tickLog' = [start |-> regime0, steps |-> <<>>]
    /\ onTick' = callback
    /\ intervalId' = nextTimerId
    /\ timers' = timers \cup {nextTimerId}
    /\ timerCb' = [i \in DOMAIN timerCb \cup {nextTimerId} |->
                     IF i = nextTimerId THEN callback ELSE timerCb[i]]
    /\ nextTimerId' = nextTimerId + 1
    /\ lastEvent' = "subscribe"
    /\ lastSubscribed' = callback
    /\ stopReturned' = FALSE
    /\ chartPc' = "streaming"
    /\ UNCHANGED <<calls, deliveredTo, deliveredTick, fireSubscriber,
                   callsAtStop, priceAtStop, timeAtStop, firedId, fires>>
    /\ UNCHANGED <<seedCount, seedRegime, seedNoises, seedSample, initialBars,
                   seedPath, mockOptions>>
    /\ UNCHANGED <<aggVars, stepVars, cardVars, placedVars, dragVars, liveVars, appVars, panelVars>>

\* Seeding, the chart's stream, and a stream created with default options.
NextSeed ==
    \/ chartSeed
    \/ \E regime0 \in sampleRegime : chartStartStream("A", regime0)
    \/ chartPc = "seeded" /\ nextTimerId = 1 /\ subscribe("A")
    \/ \E id \in timers, noise \in Noises :
          \E sample \in resampled(regime) : TimerFire(id, noise, sample, FALSE)

\* The ids a request for a placed position may name: those of the positions
\* placed so far and one that none of them has.
TradeIds == 1..(MaxTrades + 1)
LevelIds == { levelId(type, n) : type \in Types, n \in 1..MaxLevels }

\* The draft is edited until the last position the bound allows is placed, and
\* while the lots of its levels are within the range the bound allows (the
\* faults of the lots operations feed each other without limit).
Drafting ==
    /\ Len(trades) < MaxTrades
    /\ \A type \in Types : \A i \in 1..Len(creationLevels(type)) :
          Abs(creationLevels(type)[i].lots) <= MaxAbsLots

\* The level set of another type has not been touched by the lots operations.
OthersUntouched(type) ==
    \A id \in DOMAIN creationLotSliders : id[1] = type

\* The card's operations on the lots of a draft and placement.  The two level
\* sets of a draft share nothing but the position's lots, so a behaviour
\* drafts one of them.
NextDraftLots ==
    \/ \E v \in LotsInputs : Drafting /\ setLots(v)
    \/ \E type \in Types :
          Drafting /\ ~slEnabled /\ ~tpEnabled /\ OthersUntouched(type) /\ enableLevels(type)
    \/ \E type \in Types, idx \in 1..MaxLevels, input \in LevelLotsInputs :
          Drafting /\ commitLevelLots(type, idx, input)
    \/ \E type \in Types, idx \in 1..MaxLevels, value \in LotSliderValues :
          Drafting /\ changeLotSlider(type, idx, value)
    \/ \E type \in Types, idx \in 1..MaxLevels : Drafting /\ commitLotSlider(type, idx)
    \/ \E type \in Types : Drafting /\ addLevel(type)
    \/ \E type \in Types, idx \in 1..MaxLevels : Drafting /\ removeLevel(type, idx)
    \/ handlePlaceTrade

\* The card's operations on the prices of a draft and placement.
NextPlace ==
    \/ \E p \in LivePrices : Drafting /\ setLivePrice(p)
    \/ \E s \in Sides : Drafting /\ clickSide(s)
    \/ \E type \in Types : Drafting /\ enableLevels(type)
    \/ \E type \in Types, idx \in 1..MaxLevels, p \in PriceRequests \cup {0} :
          Drafting /\ commitLevelPrice(type, idx, p)
    \/ \E type \in Types, idx \in 1..MaxLevels, p \in PriceRequests :
          Drafting /\ setPercentFromPrice(type, p, idx)
    \/ \E type \in Types, idx \in 1..MaxLevels, pct \in SliderPercents :
          Drafting /\ releasePriceSlider(type, idx, pct)
    \/ handlePlaceTrade

\* Placement of drafts of one or several levels, and, once the positions are
\* placed, their price updates.
NextUpdate ==
    \/ \E s \in Sides : Drafting /\ clickSide(s)
    \/ \E type \in Types : Drafting /\ enableLevels(type)
    \/ \E type \in Types, idx \in 1..MaxLevels, input \in LevelLotsInputs :
          Drafting /\ commitLevelLots(type, idx, input)
    \/ \E type \in Types : Drafting /\ addLevel(type)
    \/ handlePlaceTrade
    \/ \E tradeId \in TradeIds, type \in Types, id \in LevelIds,
           p \in PriceRequests :
          ~Drafting /\ handleTradePriceUpdate(tradeId, type, id, p)

\* The positions are placed, their sets of the other type are empty, and the
\* sets of this type have room for a level within the bound.
OneSet(type) ==
    /\ ~Drafting
    /\ \A i \in 1..Len(trades) : \A other \in Types \ {type} :
          tradeLevels(trades[i], other) = <<>>

HasRoom(type) ==
    \A i \in 1..Len(trades) : Len(tradeLevels(trades[i], type)) < MaxLevels

\* Placement of a draft of at most one level, and, once the positions are
\* placed, the additions of levels and the edits of their lots; a behaviour
\* works on the sets of one type.
NextAddLevels ==
    \/ \E type \in Types :
          Drafting /\ ~slEnabled /\ ~tpEnabled /\ enableLevels(type)
    \/ \E type \in Types, idx \in 1..MaxLevels, input \in LevelLotsInputs :
          Drafting /\ commitLevelLots(type, idx, input)
    \/ handlePlaceTrade
    \/ \E i \in 1..MaxTrades, type \in Types :
          OneSet(type) /\ HasRoom(type) /\ clickAddPlacedLevel(i, type)
    \/ \E i \in 1..MaxTrades, type \in Types :
          OneSet(type) /\ clickAddFirstLevel(i, type)
    \/ \E tradeId \in TradeIds, type \in Types, p \in LevelPriceRequests,
           requested \in AddLotsRequests :
          /\ OneSet(type) /\ HasRoom(type)
          /\ onAddLevel(tradeId, type, p, requested)
          /\ UNCHANGED placedVars
    \/ \E i \in 1..MaxTrades, type \in Types, k \in 1..MaxLevels,
           input \in PlacedLotsInputs :
          OneSet(type) /\ blurPlacedLots(i, type, k, input)

MaxPositions == 2

\* Placement of drafts with a level of either type, then the locks of the
\* positions and the removal of their levels, and on the first position a
\* second take-profit level, added to the draft's one, and the locks of
\* single levels.
NextPositions ==
    \/ \E type \in Types :
          Len(trades) < MaxPositions /\ enableLevels(type)
    \/ (slEnabled /\ tpEnabled /\ placeTradeUpTo(MaxPositions))
    \/ (Len(trades) = MaxPositions /\ blurPlacedLots(1, "tp", 1, 5))
    \/ ( /\ Len(trades) = MaxPositions
         /\ Len(tradeLevels(trades[1], "tp")) = 1
         /\ tradeLevels(trades[1], "tp")[1].id = levelId("tp", 1)
         /\ clickAddPlacedLevel(1, "tp") )
    \/ \E type \in Types, k \in 1..MaxLevels :
          Len(trades) = MaxPositions /\ clickLevelLock(1, type, k)
    \/ \E i \in 1..MaxPositions :
          Len(trades) = MaxPositions /\ clickPositionLock(i)
    \/ \E i \in 1..MaxPositions, type \in Types, k \in 1..MaxLevels :
          Len(trades) = MaxPositions /\ clickRemovePlacedLevel(i, type, k)

\* Placement of a draft of one level, and, once the positions are placed, the
\* lock, the lots edits and the price updates of their levels.
NextLock ==
    \/ \E s \in Sides : Drafting /\ clickSide(s)
    \/ \E type \in Types :
          Drafting /\ ~slEnabled /\ ~tpEnabled /\ enableLevels(type)
    \/ handlePlaceTrade
    \/ \E i \in 1..MaxTrades, type \in Types, k \in 1..MaxLevels,
           input \in PlacedLotsInputs :
          OneSet(type) /\ blurPlacedLots(i, type, k, input)
    \/ \E i \in 1..MaxTrades, type \in Types, k \in 1..MaxLevels,
           value \in PlacedLotSliderValues :
          OneSet(type) /\ changePlacedLotSlider(i, type, k, value)
    \/ \E i \in 1..MaxTrades, type \in Types, k \in 1..MaxLevels :
          OneSet(type) /\ releasePlacedLotSlider(i, type, k)
    \/ \E tradeId \in TradeIds, type \in Types, id \in LevelIds,
           newLots \in PlacedLotsInputs \ {0} :
          /\ OneSet(type)
          /\ onUpdateLevelLots(tradeId, type, id, newLots)
          /\ UNCHANGED placedVars
    \/ \E i \in 1..MaxTrades, type \in Types, k \in 1..MaxLevels :
          OneSet(type) /\ clickLevelLock(i, type, k)
    \/ \E tradeId \in TradeIds, type \in Types, id \in LevelIds,
           p \in LevelPriceRequests :
          OneSet(type) /\ handleTradePriceUpdate(tradeId, type, id, p)

\* The pointer rows of a drag of the draft's lines: near the first take-profit
\* level of a buy draft and near its first stop-loss level.
DraftRows == {78, 122}

\* The chart shows the draft the card holds.
previewSynced ==
    previewLinesRef = previewLinesOf(slEnabled, tpEnabled,
                                     creationSlLevels, creationTpLevels)

\* A draft is given its level sets, the chart renders its lines, and the
\* pointer drags them.  The card is not operated while a button is held on
\* the chart.
NextPreviewDrag ==
    \/ \E type \in Types : ~isDraggingRef /\ previewSynced /\ enableLevels(type)
    \/ (~previewSynced /\ renderPreview)
    \/ \E mouseY \in DraftRows : previewSynced /\ handleMouseMove(mouseY)
    \/ \E mouseY \in DraftRows :
          previewSynced /\ pointerEvent.row = mouseY /\ handleMouseDown(mouseY)
    \/ (previewSynced /\ pointerEvent.row # 0 /\ handleMouseUp("up"))
    \/ (previewSynced /\ pointerEvent.row # 0 /\ handleMouseLeave)

-----------------------------------------------------------------------------
\* The data source switch of the card (place-trades-card.tsx:490-510) and
\* App's dataSource state.

InitApp == dataSource = "simulated"

\* onCheckedChange of the switch with onDataSourceChange={setDataSource}: the
\* state takes the value handed over; then App's effect on [dataSource], "Hard
\* reset when switching data source".  undefined is 0 for the live price.
onDataSourceChange(source) ==
    /\ dataSource' = source
    /\ IF dataSource' # dataSource
       THEN /\ trades' = <<>>
            /\ livePrice' = 0
       ELSE UNCHANGED <<trades, livePrice>>
    /\ lastOp' = NoOp
    /\ UNCHANGED <<lots, side, slEnabled, tpEnabled, creationSlLevels,
                   creationTpLevels, creationLotSliders, nextTradeId,
                   lotsEdited, levelRemoved>>
    /\ UNCHANGED <<feedVars, aggVars, stepVars, seedVars, placedVars, dragVars, liveVars, panelVars>>

\* A click on the switch: checked is the opposite of what it shows.
clickDataSourceSwitch ==
    LET checked == ~(dataSource = "live")
    IN  onDataSourceChange(IF checked THEN "live" ELSE "simulated")

\* The switch is toggled while drafts are made and placed, MaxTrades
\* placements in all.
NextSource ==
    \/ clickDataSourceSwitch
    \/ \E p \in LivePrices : Drafting /\ setLivePrice(p)
    \/ \E s \in Sides : Drafting /\ clickSide(s)
    \/ \E type \in Types : Drafting /\ enableLevels(type)
    \/ (nextTradeId <= MaxTrades /\ handlePlaceTrade)

\* The two feeds side by side: each runs all its operations while the other
\* has not been subscribed to.
NextStop ==
    \/ (liveLog.subscribes = 0 /\ NextFeed)
    \/ (nextTimerId = 1 /\ NextLive)

\* The ids App's handlers are called with: those of the positions placed, and
\* one no position has.
PositionIds == 1..(MaxPositions + 1)

\* MaxPositions positions are placed, and App's handlers are called with any
\* id.
NextFrame ==
    \/ \E type \in Types : nextTradeId <= MaxPositions /\ enableLevels(type)
    \/ ( /\ slEnabled
         /\ tpEnabled
         /\ nextTradeId <= MaxPositions
         /\ placeTradeUpTo(MaxPositions) )
    \/ \E tradeId \in PositionIds, type \in Types, p \in LevelPriceRequests :
          /\ nextTradeId > MaxPositions
          /\ handleTradePriceUpdate(tradeId, type, levelId(type, 1), p)
    \/ \E tradeId \in PositionIds, type \in Types, locked \in BOOLEAN :
          /\ nextTradeId > MaxPositions
          /\ onToggleLevelLock(tradeId, type, levelId(type, 1), locked)
          /\ UNCHANGED placedVars
    \/ \E tradeId \in PositionIds, locked \in BOOLEAN :
          /\ nextTradeId > MaxPositions
          /\ handleTogglePositionLock(tradeId, locked)
          /\ UNCHANGED placedVars
    \/ \E tradeId \in PositionIds, type \in Types :
          /\ nextTradeId > MaxPositions
          /\ handleRemoveSlTp(tradeId, type, levelId(type, 1))
          /\ UNCHANGED placedVars
    \/ \E tradeId \in PositionIds, visible \in BOOLEAN :
          /\ nextTradeId > MaxPositions
          /\ handleTradeVisibilityChange(tradeId, visible)
          /\ UNCHANGED placedVars
    \/ \E tradeId \in PositionIds :
          /\ nextTradeId > MaxPositions
          /\ handleCloseTrade(tradeId)
          /\ UNCHANGED placedVars

NextCard ==
    \/ NextDraftLots
    \/ NextPlace
    \/ NextUpdate
    \/ NextAddLevels
    \/ NextLock
    \/ NextPositions
    \/ NextFrame

-----------------------------------------------------------------------------
\* The chart panel's initialisation effect on [dataSource]
\* (chart-panel.tsx:160-616).  Each run of the effect has its own `cancelled`
\* flag, chart and stream; cleanupRef is shared by the runs.

MaxEffects == 3
MaxPanelTicks == 1
Sources == {"simulated", "live"}

\* A run of the effect as it starts.  history says where the bars came from;
\* createdCancelled and lateTicks observe the run: whether its chart and
\* feed were created after its cleanup, and the ticks its callback got after
\* its cleanup.
NewEffect(source) ==
    [source |-> source, cancelled |-> FALSE, phase |-> "loading",
     history |-> "none", chart |-> "none", stream |-> "none", ticks |-> 0,
     createdCancelled |-> FALSE, lateTicks |-> 0]

InitPanel == panel = [effects |-> <<>>, cleanupRef |-> 0, mounted |-> FALSE]

\* A variant without `if (cancelled) return`.
goesOnAlways(effect) == TRUE

\* if (cancelled) return
goesOn(effect) == ~effect.cancelled

\* The async function of run e once the bars are there: createChart, the
\* stream and its subscribe, cleanupRef.current = ...
initialised(p, e) ==
    IF goesOn(p.effects[e])
    THEN [p EXCEPT !.effects[e].phase = "ready",
                   !.effects[e].chart = "shown",
                   !.effects[e].stream = "subscribed",
                   !.effects[e].createdCancelled = p.effects[e].cancelled,
                   !.cleanupRef = e]
    ELSE [p EXCEPT !.effects[e].phase = "returned"]

\* The effect runs: with a key the async function awaits
\* fetchPolygonForexM5Bars; without one it has no await and runs to its end.
effectRuns(p, key, source) ==
    LET e == Len(p.effects) + 1
        q == [p EXCEPT !.effects = Append(@, NewEffect(source))]
    IN  IF hasApiKey(key)
        THEN q
        ELSE initialised([q EXCEPT !.effects[e].history = "generated"], e)

\* The function the effect returns: cancelled = true of the run in force,
\* cleanupRef.current?.(), cleanupRef.current = null.
cleanedUp(p) ==
    LET e == Len(p.effects)
        c == p.cleanupRef
        q == [p EXCEPT !.effects[e].cancelled = TRUE]
    IN  IF c = 0
        THEN q
        ELSE [q EXCEPT !.effects[c].stream = "stopped",
                       !.effects[c].chart = "removed",
                       !.cleanupRef = 0]

panelUnchanged ==
    UNCHANGED <<feedVars, aggVars, stepVars, cardVars, seedVars, placedVars, dragVars,
                liveVars, appVars>>

mountPanel(source) ==
    /\ ~panel.mounted
    /\ Len(panel.effects) < MaxEffects
    /\ panel' = effectRuns([panel EXCEPT !.mounted = TRUE], apiKey, source)
    /\ panelUnchanged

\* A render with another dataSource: the cleanup of the run in force, then
\* the effect anew.
changeDataSource(source) ==
    /\ panel.mounted
    /\ Len(panel.effects) < MaxEffects
    /\ panel.effects[Len(panel.effects)].source # source
    /\ panel' = effectRuns(cleanedUp(panel), apiKey, source)
    /\ panelUnchanged

unmountPanel ==
    /\ panel.mounted
    /\ panel' = [cleanedUp(panel) EXCEPT !.mounted = FALSE]
    /\ panelUnchanged

\* fetchPolygonForexM5Bars of run e resolves.
historyLoaded(e) ==
    /\ panel.effects[e].phase = "loading"
    /\ panel' = initialised([panel EXCEPT !.effects[e].history = "fetched"], e)
    /\ panelUnchanged

\* fetchPolygonForexM5Bars of run e rejects: the catch.
historyFailed(e) ==
    /\ panel.effects[e].phase = "loading"
    /\ panel' = initialised([panel EXCEPT !.effects[e].history = "generated"], e)
    /\ panelUnchanged

\* The stream of run e hands a tick to the callback subscribed by the run.  A
\* stream delivers while subscribed and not stopped; the live one needs a key.
streamTick(e) ==
    /\ panel.effects[e].stream = "subscribed"
    /\ panel.effects[e].ticks < MaxPanelTicks
    /\ panel.effects[e].source = "live" => hasApiKey(apiKey)
    /\ panel' = [panel EXCEPT
          !.effects[e].ticks = @ + 1,
          !.effects[e].lateTicks = IF panel.effects[e].cancelled THEN @ + 1 ELSE @]
    /\ panelUnchanged

NextPanel ==
    \/ \E source \in Sources : mountPanel(source)
    \/ \E source \in Sources : changeDataSource(source)
    \/ unmountPanel
    \/ \E e \in 1..Len(panel.effects) : historyLoaded(e)
    \/ \E e \in 1..Len(panel.effects) : historyFailed(e)
    \/ \E e \in 1..Len(panel.effects) : streamTick(e)

-----------------------------------------------------------------------------
\* Specifications.  The components share no state, so each is explored on its
\* own with the others idle in their initial state.

Init ==
    /\ InitFeed
    /\ InitAgg
    /\ InitStep
    /\ InitCard
    /\ InitSeed
    /\ InitPlaced
    /\ InitDrag
    /\ InitLive
    /\ InitApp
    /\ InitPanel

Next ==
    \/ NextFeed
    \/ NextAgg
    \/ NextStep
    \/ NextRegime
    \/ NextCard
    \/ NextSeed
    \/ NextDrag
    \/ NextPreviewDrag
    \/ NextLive
    \/ NextSource
    \/ NextPanel

Spec == Init /\ [][Next]_vars

\* A single initial state of the nextPrice call, for the specifications of the
\* other components.
StepIdle ==
    /\ stepOpts.min = 1000000 /\ stepOpts.max = 1000020
    /\ stepPrice = stepOpts.basePrice
    /\ stepRegime.type = "RANGE"

\* A single initial state of the feed, likewise.
FeedIdle == regime.type = "RANGE"

\* A single initial state of the chart's lines, likewise.
DragIdle == previewLinesRef = <<>>

\* A single initial state of the live feed, likewise.
LiveIdle == apiKey = NoKey

\* A single initial state of the seeding, likewise.
SeedIdle ==
    /\ seedCount = 1
    /\ seedRegime.type = "RANGE"
    /\ seedSample.type = "RANGE"
    /\ \A k \in 1..MaxDraws : seedNoises[k] = 40

InitFeedOnly ==
    /\ Init
    /\ LiveIdle
    /\ SeedIdle
    /\ DragIdle
    /\ StepIdle

SpecFeed == InitFeedOnly /\ [][NextFeed]_vars

InitAggOnly ==
    /\ Init
    /\ LiveIdle
    /\ SeedIdle
    /\ DragIdle
    /\ FeedIdle
    /\ StepIdle

SpecAgg == InitAggOnly /\ [][NextAgg]_vars

InitStepOnly ==
    /\ Init
    /\ LiveIdle
    /\ SeedIdle
    /\ DragIdle
    /\ FeedIdle

SpecStep == InitStepOnly /\ [][NextStep]_vars

\* Tick steps from every regime a stream can start with, under one
\* configuration.
InitRegimeOnly ==
    /\ InitStepOnly
    /\ stepOpts.min = 1000000 /\ stepOpts.max = 1000020
    /\ stepPrice = stepOpts.basePrice

SpecRegime == InitRegimeOnly /\ [][NextRegime]_vars

InitCardOnly ==
    /\ Init
    /\ LiveIdle
    /\ SeedIdle
    /\ DragIdle
    /\ FeedIdle
    /\ StepIdle

SpecDraftLots == InitCardOnly /\ [][NextDraftLots]_vars

InitPlaceOnly ==
    /\ Init
    /\ LiveIdle
    /\ SeedIdle
    /\ DragIdle
    /\ FeedIdle
    /\ StepIdle

SpecPlace == InitPlaceOnly /\ [][NextPlace]_vars

InitUpdateOnly ==
    /\ Init
    /\ LiveIdle
    /\ SeedIdle
    /\ DragIdle
    /\ FeedIdle
    /\ StepIdle

SpecUpdate == InitUpdateOnly /\ [][NextUpdate]_vars

InitLevelsOnly ==
    /\ Init
    /\ LiveIdle
    /\ SeedIdle
    /\ DragIdle
    /\ FeedIdle
    /\ StepIdle

SpecAddLevels == InitLevelsOnly /\ [][NextAddLevels]_vars

SpecLock == InitLevelsOnly /\ [][NextLock]_vars

SpecPositions == InitLevelsOnly /\ [][NextPositions]_vars

SpecFrame == InitLevelsOnly /\ [][NextFrame]_vars

InitDragOnly ==
    /\ Init
    /\ LiveIdle
    /\ SeedIdle
    /\ FeedIdle
    /\ StepIdle

SpecDrag == InitDragOnly /\ [][NextDrag]_vars

SpecPreviewDrag == InitLevelsOnly /\ [][NextPreviewDrag]_vars

InitStopOnly ==
    /\ Init
    /\ SeedIdle
    /\ DragIdle
    /\ FeedIdle
    /\ StepIdle

SpecStop == InitStopOnly /\ [][NextStop]_vars

SpecSource == InitStopOnly /\ [][NextSource]_vars

SpecPanel == InitStopOnly /\ [][NextPanel]_vars

InitLiveOnly ==
    /\ Init
    /\ SeedIdle
    /\ DragIdle
    /\ FeedIdle
    /\ StepIdle

SpecLive == InitLiveOnly /\ [][NextLive]_vars

\* The stream created with default options draws the regime the seeding drew.
InitSeedOnly ==
    /\ Init
    /\ LiveIdle
    /\ StepIdle
    /\ DragIdle
    /\ regime = seedRegime

SpecSeed == InitSeedOnly /\ [][NextSeed]_vars

-----------------------------------------------------------------------------
\* Claims about the simulated feed (checked under SpecFeed).

\* C1: once stop() has returned, no callback is invoked until a later
\* subscribe(): the invocation counts stay what they were when stop() returned,
\* whatever timers fire meanwhile, also when stop() was called from inside the
\* tick callback.
C1_NoCallbackAfterStop == stopReturned => calls = callsAtStop

\* An interval fired after stop() returned, after callbacks had been invoked.
C1_Witness ==
    /\ stopReturned
    /\ lastEvent = "fire"
    /\ timeSec > timeAtStop
    /\ \E c \in Callbacks : calls[c] > 0

\* C6: after stop() returns no interval is scheduled and the feed's price and
\* simulated time stay what they were when stop() returned.
C6_StopHaltsCadence ==
    stopReturned => /\ timers = {}
                    /\ price = priceAtStop
                    /\ timeSec = timeAtStop

\* C7: every timer firing hands exactly one tick, the feed's new time and price,
\* to exactly the callback of the latest subscribe() (to nobody after stop()),
\* so a callback replaced by a later subscribe() is never invoked again.
C7_SingleSlot ==
    lastEvent = "fire" =>
        /\ deliveredTo = IF fireSubscriber = NoCb THEN <<>> ELSE <<fireSubscriber>>
        /\ deliveredTick = [time |-> timeSec, price |-> price]

\* The interval created by subscribe(A) fired after subscribe(B) and invoked B.
C7_Witness ==
    /\ lastEvent = "fire"
    /\ firedId \in DOMAIN timerCb
    /\ timerCb[firedId] = "A"
    /\ fireSubscriber = "B"
    /\ deliveredTo = <<"B">>

-----------------------------------------------------------------------------
\* Claims about the aggregator (checked under SpecAgg).

\* C5: while the ticks fed to the aggregator have non-decreasing times, the bar
\* returned by applyTick has a time that is a multiple of 300 and not below the
\* time of the bar returned before it, and low <= open <= high and
\* low <= close <= high.
C5_OrderedBars ==
    (ordered /\ returned # NoBar) =>
        /\ returned.barTime >= prevBarTime
        /\ returned.barTime % M5_PERIOD_SECONDS = 0
        /\ returned.barTime <= lastTick.time
        /\ lastTick.time < returned.barTime + M5_PERIOD_SECONDS
        /\ returned.low <= returned.open /\ returned.open <= returned.high
        /\ returned.low <= returned.close /\ returned.close <= returned.high

\* An ordered run reached a later bucket and extended its bar both ways.
C5_Witness ==
    /\ ordered
    /\ returned.barTime >= M5_PERIOD_SECONDS
    /\ prevBarTime = returned.barTime
    /\ returned.low < returned.open
    /\ returned.open < returned.high

\* C31: a tick whose 300-second bucket is earlier than the bucket of the held
\* bar is ignored: applyTick returns the held bar as it was, open, high, low
\* and close included.
C31_LateTickIgnored ==
    (heldBefore # NoBar /\ bucketOf(lastTick.time) < heldBefore.barTime) =>
        /\ returned = heldBefore
        /\ state = heldBefore

\* C32: whatever ticks arrive, in order or not, the time of the bar applyTick
\* returns is never below the time of the bar the call before it returned.
C32_BarTimeNeverDecreases ==
    returned # NoBar => returned.barTime >= prevBarTime

\* A tick of an earlier bucket arrived while a bar of a later bucket was held,
\* and the returned bar kept the later time.
C32_Witness ==
    /\ ~ordered
    /\ heldBefore # NoBar
    /\ bucketOf(lastTick.time) < heldBefore.barTime
    /\ prevBarTime = heldBefore.barTime
    /\ returned.barTime = prevBarTime

\* C15: applyTick starts a new bar with open = high = low = close = tick.price
\* exactly when no bar is held or floor(tick.time / 300) * 300 is strictly
\* greater than the held bar's time; otherwise it keeps the held bar's time and
\* open, sets high to max(high, price), low to min(low, price) and close to
\* tick.price; the returned bar equals the held bar after this update.
C15_StartOrExtend ==
    lastTick # NoTick =>
        LET t == (lastTick.time \div 300) * 300
            p == lastTick.price
            starts == heldBefore = NoBar \/ t > heldBefore.barTime
        IN  /\ returned = state
            /\ state.close = p
            /\ IF starts
               THEN /\ state.barTime = t
                    /\ state.open = p /\ state.high = p /\ state.low = p
               ELSE /\ state.barTime = heldBefore.barTime
                    /\ state.open = heldBefore.open
                    /\ state.high = (IF p > heldBefore.high THEN p ELSE heldBefore.high)
                    /\ state.low = (IF p < heldBefore.low THEN p ELSE heldBefore.low)

\* C15 witness: the last tick fell into the bucket of a held bar that had
\* already been extended upwards, and pushed its low down.
C15_Witness ==
    /\ heldBefore # NoBar
    /\ (lastTick.time \div 300) * 300 = heldBefore.barTime
    /\ heldBefore.high > heldBefore.open
    /\ lastTick.price < heldBefore.low
    /\ state.low = lastTick.price
    /\ state.high = heldBefore.high

-----------------------------------------------------------------------------
\* Claims about nextPrice (checked under SpecStep).

\* C8: for every configuration with min <= max and every input price in
\* [min, max], the price nextPrice returns lies in [min, max].
C8_StepWithinBounds ==
    (/\ stepOut # -1
     /\ stepOpts.min <= stepOpts.max
     /\ stepOpts.min <= stepPrice /\ stepPrice <= stepOpts.max) =>
        (stepOpts.min <= stepOut /\ stepOut <= stepOpts.max)

-----------------------------------------------------------------------------
\* Claims about the lots of a draft (checked under SpecDraftLots).

\* C2: while the position's lots are fixed (never changed) and no level was
\* removed, after any sequence of add-level and lots-update operations on the
\* draft the lots of the levels of each set sum to at most the position's lots.
C2_SumWithinLots ==
    (~lotsEdited /\ ~levelRemoved /\ trades = <<>>) =>
        \A type \in Types : sumLots(creationLevels(type)) <= lots

\* C9: no level's lots are ever below 0.01, and every lots update stores a value
\* inside [0.01, position.lots - sum of the other levels' lots].
C9_LotsClamped ==
    /\ \A type \in Types : \A i \in 1..Len(creationLevels(type)) :
          creationLevels(type)[i].lots >= 1
    /\ lastOp.op = "lots" =>
          /\ lastOp.stored >= 1
          /\ lastOp.stored <= lastOp.total - lastOp.others

\* C10: for each side of every placed position the lots of the levels sum to at
\* most the position's lots, from the moment it is placed.
C10_PlacedSumWithinLots ==
    \A i \in 1..Len(trades) : \A type \in Types :
        sumLots(tradeLevels(trades[i], type)) <= trades[i].lots

-----------------------------------------------------------------------------
\* Claims about the prices of placed positions (C4 checked under SpecPlace,
\* C3 under SpecUpdate).

\* The side/type table: BUY has stop-loss < entry < take-profit, SELL has
\* take-profit < entry < stop-loss.
InTable(tradeSide, entryPrice, type, p) ==
    \/ tradeSide = "buy"  /\ type = "sl" /\ p < entryPrice
    \/ tradeSide = "buy"  /\ type = "tp" /\ p > entryPrice
    \/ tradeSide = "sell" /\ type = "sl" /\ p > entryPrice
    \/ tradeSide = "sell" /\ type = "tp" /\ p < entryPrice

\* What a price update leaves of a position: everything but the prices of the
\* levels of the named set, which are as given by priceOf.
SameBut(after, before, type, priceOf(_)) ==
    /\ after.id = before.id
    /\ after.side = before.side
    /\ after.lots = before.lots
    /\ after.entryPrice = before.entryPrice
    /\ \A other \in Types \ {type} :
          tradeLevels(after, other) = tradeLevels(before, other)
    /\ Len(tradeLevels(after, type)) = Len(tradeLevels(before, type))
    /\ \A k \in 1..Len(tradeLevels(before, type)) :
          /\ tradeLevels(after, type)[k].id = tradeLevels(before, type)[k].id
          /\ tradeLevels(after, type)[k].lots = tradeLevels(before, type)[k].lots
          /\ tradeLevels(after, type)[k].locked = tradeLevels(before, type)[k].locked
          /\ tradeLevels(after, type)[k].price = priceOf(tradeLevels(before, type)[k])

\* C3: a price update of a placed position is applied if and only if the new
\* price satisfies the side/type table; otherwise (a price equal to the entry
\* price or on the wrong side) the level's price and every other field of the
\* position are unchanged.  Positions other than the named one never change.
C3_PriceUpdateIffValid ==
    [][lastOp'.op = "price" =>
          /\ Len(trades') = Len(trades)
          /\ \A i \in 1..Len(trades) :
                LET applied == /\ trades[i].id = lastOp'.tradeId
                               /\ InTable(trades[i].side, trades[i].entryPrice,
                                          lastOp'.lineType, lastOp'.newPrice)
                    priceOf(level) == IF applied /\ level.id = lastOp'.id
                                      THEN lastOp'.newPrice
                                      ELSE level.price
                IN  SameBut(trades'[i], trades[i], lastOp'.lineType, priceOf)]_vars

\* C3 witness: a price update was accepted and moved a level of a position
\* that has several levels in that set.
C3_Witness ==
    /\ lastOp.op = "price"
    /\ lastOp.changed
    /\ \E i \in 1..Len(trades) : \E type \in Types :
          /\ Len(tradeLevels(trades[i], type)) > 1
          /\ tradeLevels(trades[i], type)[1].price # tradeLevels(trades[i], type)[2].price

\* C4: every stop-loss and take-profit level of every placed position satisfies
\* the side/type table relative to the position's entry price, the levels the
\* position was created with included.
C4_PlacedLevelsValid ==
    \A i \in 1..Len(trades) : \A type \in Types :
        \A k \in 1..Len(tradeLevels(trades[i], type)) :
            InTable(trades[i].side, trades[i].entryPrice, type,
                    tradeLevels(trades[i], type)[k].price)

-----------------------------------------------------------------------------
\* Claims about history seeding (checked under SpecSeed).

\* C16: generateInitialM5Bars(N), N >= 1, returns exactly N bars, oldest first,
\* each built from exactly 300 inner steps, with times that are consecutive
\* multiples of 300, the last one being floor(now / 300) * 300 - 300.
C16_SeededBars ==
    chartPc # "loading" =>
        /\ Len(initialBars) = seedCount
        /\ \A i \in 1..Len(initialBars) :
              /\ initialBars[i].steps = 300
              /\ initialBars[i].time % 300 = 0
        /\ \A i \in 1..(Len(initialBars) - 1) :
              initialBars[i + 1].time = initialBars[i].time + 300
        /\ initialBars[Len(initialBars)].time = (NowSec \div 300) * 300 - 300

\* C16 witness: a history of several bars was generated.
C16_Witness ==
    /\ chartPc = "seeded"
    /\ Len(initialBars) >= 2
    /\ initialBars[1].time < initialBars[2].time

-----------------------------------------------------------------------------
\* Claims about the levels of a placed position (checked under SpecAddLevels
\* and SpecLock).

\* C11: adding a level to a set whose remaining capacity
\* R = position.lots - (sum of the existing levels' lots) is positive appends
\* one level holding min(requested lots, R) and leaves the existing levels as
\* they were; when R <= 0 no level is added and the set is unchanged.  No other
\* position changes.
C11_AddAllocatesRemaining ==
    [][lastOp'.op = "add" =>
          /\ Len(trades') = Len(trades)
          /\ \A i \in 1..Len(trades) :
                LET before == tradeLevels(trades[i], lastOp'.lineType)
                    after == tradeLevels(trades'[i], lastOp'.lineType)
                    R == trades[i].lots - sumLots(before)
                IN  IF trades[i].id = lastOp'.tradeId /\ R > 0
                    THEN /\ Len(after) = Len(before) + 1
                         /\ SubSeq(after, 1, Len(before)) = before
                         /\ after[Len(after)].lots =
                               (IF lastOp'.lots < R THEN lastOp'.lots ELSE R)
                    ELSE trades'[i] = trades[i]]_vars

\* C11 witness: a level was added to a set that had one, with a request larger
\* than the remaining capacity, and holds that capacity.
C11_Witness ==
    /\ lastOp.op = "add"
    /\ \E i \in 1..Len(trades) :
          LET levels == tradeLevels(trades[i], lastOp.lineType)
          IN  /\ trades[i].id = lastOp.tradeId
              /\ Len(levels) >= 2
              /\ levels[Len(levels)].lots < lastOp.lots
              /\ levels[Len(levels)].lots > 0
              /\ sumLots(levels) = trades[i].lots

\* The level of the set `type` of position `trade` that has the id `id`.
levelOf(trade, type, id) ==
    LET levels == tradeLevels(trade, type)
    IN  levels[CHOOSE k \in 1..Len(levels) : levels[k].id = id]

\* C12: a level's lock gates lots changes and not price changes: no step
\* changes the lots of a placed level that is locked when the step starts, be
\* it a lots input, a lots slider or a lots update handed to App; and a price
\* update that names a locked level with a price valid for the position's side
\* and the level's type gives the level that price.
C12_LockGatesLotsNotPrice ==
    [][\A i \in 1..Len(trades) : \A type \in Types :
          \A k \in 1..Len(tradeLevels(trades[i], type)) :
             LET before == tradeLevels(trades[i], type)[k]
                 after == levelOf(trades'[i], type, before.id)
             IN  before.locked =>
                    /\ Len(trades') = Len(trades)
                    /\ \E n \in 1..Len(tradeLevels(trades'[i], type)) :
                          tradeLevels(trades'[i], type)[n].id = before.id
                    /\ after.lots = before.lots
                    /\ ( /\ lastOp'.op = "price"
                         /\ lastOp'.tradeId = trades[i].id
                         /\ lastOp'.lineType = type
                         /\ lastOp'.id = before.id
                         /\ InTable(trades[i].side, trades[i].entryPrice, type,
                                    lastOp'.newPrice) )
                       => after.price = lastOp'.newPrice]_vars

\* C12 witness: a locked level of a placed position was given a new price by a
\* price update, and holds lots other than the position's, set by a lots
\* update before it was locked.
C12_Witness ==
    /\ lastOp.op = "price"
    /\ lastOp.changed
    /\ \E i \in 1..Len(trades) :
          \E k \in 1..Len(tradeLevels(trades[i], lastOp.lineType)) :
             LET level == tradeLevels(trades[i], lastOp.lineType)[k]
             IN  /\ trades[i].id = lastOp.tradeId
                 /\ level.id = lastOp.id
                 /\ level.locked
                 /\ level.price = lastOp.newPrice
                 /\ level.lots # trades[i].lots

-----------------------------------------------------------------------------
\* Claims about the locks and the removal of placed levels (checked under
\* SpecPositions).

\* The level as it is but for its lock flag.
unlockedCopy(level) == [level EXCEPT !.locked = FALSE]

\* C24: a position lock sets the position's flag and the flag of every
\* stop-loss and take-profit level of the position to the value handed over,
\* and changes no price, no lots, no level set and no other position.
C24_PositionLockCascades ==
    [][lastOp'.op = "positionLock" =>
          /\ Len(trades') = Len(trades)
          /\ \A i \in 1..Len(trades) :
                IF trades[i].id = lastOp'.tradeId
                THEN /\ trades'[i].lockedPosition = lastOp'.locked
                     /\ trades'[i].id = trades[i].id
                     /\ trades'[i].side = trades[i].side
                     /\ trades'[i].lots = trades[i].lots
                     /\ trades'[i].entryPrice = trades[i].entryPrice
                     /\ \A type \in Types :
                           LET before == tradeLevels(trades[i], type)
                               after == tradeLevels(trades'[i], type)
                           IN  /\ Len(after) = Len(before)
                               /\ \A k \in 1..Len(before) :
                                     /\ after[k].locked = lastOp'.locked
                                     /\ unlockedCopy(after[k]) = unlockedCopy(before[k])
                ELSE trades'[i] = trades[i]]_vars

\* C24 witness: the first position, of one stop-loss and two take-profit
\* levels, was locked and all its levels are locked; the second position is
\* not locked and holds an unlocked level.
C24_Witness ==
    /\ lastOp.op = "positionLock"
    /\ lastOp.locked
    /\ Len(trades) = 2
    /\ lastOp.tradeId = trades[1].id
    /\ Len(trades[1].takeProfitLevels) = 2
    /\ Len(trades[1].stopLossLevels) = 1
    /\ \A type \in Types : \A k \in 1..Len(tradeLevels(trades[1], type)) :
          tradeLevels(trades[1], type)[k].locked
    /\ ~trades[2].lockedPosition
    /\ \E k \in 1..Len(trades[2].takeProfitLevels) : ~trades[2].takeProfitLevels[k].locked

\* C25: the removal of a level takes the level out of its set whatever its lock
\* and the lock of its position, and leaves the position's entry price, the
\* levels of its other side and every other position as they were.
C25_RemoveIgnoresLocks ==
    [][lastOp'.op = "remove" =>
          /\ Len(trades') = Len(trades)
          /\ \A i \in 1..Len(trades) :
                IF trades[i].id = lastOp'.tradeId
                THEN /\ \A k \in 1..Len(tradeLevels(trades'[i], lastOp'.lineType)) :
                           tradeLevels(trades'[i], lastOp'.lineType)[k].id # lastOp'.id
                     /\ trades'[i].entryPrice = trades[i].entryPrice
                     /\ trades'[i].lockedPosition = trades[i].lockedPosition
                     /\ \A other \in Types \ {lastOp'.lineType} :
                           tradeLevels(trades'[i], other) = tradeLevels(trades[i], other)
                ELSE trades'[i] = trades[i]]_vars

\* C25 witness: a locked stop-loss level of a locked position was removed:
\* the position is still locked, its stop-loss set is empty, and its locked
\* take-profit levels are in place.
C25_Witness ==
    /\ lastOp.op = "remove"
    /\ lastOp.lineType = "sl"
    /\ Len(trades) = 2
    /\ lastOp.tradeId = trades[1].id
    /\ trades[1].lockedPosition
    /\ trades[1].stopLossLevels = <<>>
    /\ Len(trades[1].takeProfitLevels) = 2
    /\ \A k \in 1..2 : trades[1].takeProfitLevels[k].locked

-----------------------------------------------------------------------------
\* Claims about the chart's pointer handlers (checked under SpecDrag).

\* The targets a pointer-down at the row may select: the draft's lines near the
\* row, and the lines near the row of placed levels that are not locked.
nearSelectable(mouseY) ==
    { previewTarget(previewLinesRef[i].type, previewLinesRef[i].levelIndex) :
        i \in { n \in 1..Len(previewLinesRef) :
                  isNearPriceLine(mouseY, previewLinesRef[n].price) } }
    \cup
    { target \in UNION { { placedTarget(type, tradesRef[t].id,
                                        tradeLevels(tradesRef[t], type)[k].id) :
                             k \in 1..Len(tradeLevels(tradesRef[t], type)) } :
                         t \in 1..Len(tradesRef), type \in Types } :
        /\ target \notin lockedTargets
        /\ \E e \in 1..Len(priceLinesRef) :
              /\ priceLinesRef[e].tradeId = target.tradeId
              /\ LET lines == IF target.type = "sl" THEN priceLinesRef[e].slLevels
                                                    ELSE priceLinesRef[e].tpLevels
                 IN  \E n \in 1..Len(lines) :
                        /\ lines[n].levelId = target.levelId
                        /\ isNearPriceLine(mouseY, lines[n].price) }

\* C13: a placed level that is locked at pointer-down is never selected as
\* drag target, so a drag that starts while a level is locked neither moves
\* that level's line nor commits a price to it; and a pointer-down near the
\* line of an unlocked placed level or of a draft level selects one of those.
C13_LockedNeverDragged ==
    /\ (isDraggingRef /\ isPlaced(dragTargetRef)) =>
          /\ dragTargetRef \notin lockedTargets
          /\ dragTargetRef \notin gesture.locked
    /\ isPlaced(gesture.moved) => gesture.moved \notin gesture.locked
    /\ \A n \in 1..Len(gesture.calls) :
          placedTarget(gesture.calls[n].type, gesture.calls[n].tradeId,
                       gesture.calls[n].levelId) \notin gesture.locked
    /\ (pointerEvent.type = "down" /\ nearSelectable(pointerEvent.row) # {}) =>
          /\ isDraggingRef
          /\ dragTargetRef \in nearSelectable(pointerEvent.row)

\* C13 witness: with the first take-profit level locked, a pointer-down near
\* both take-profit lines selected the second one, and its line was moved.
C13_Witness ==
    /\ isDraggingRef
    /\ dragTargetRef = placedTarget("tp", 1, levelId("tp", 2))
    /\ placedTarget("tp", 1, levelId("tp", 1)) \in gesture.locked
    /\ gesture.moved = dragTargetRef

\* C14: during a drag of a placed level no pointer movement invokes the
\* price-update callback; when the drag ends, by pointer-up or by the pointer
\* leaving the chart, the callback was invoked exactly once, for the level
\* whose line was moved and with the price of the last movement, and not at all
\* if no line of a placed level was moved.
C14_CommitOnceAtEnd ==
    /\ isDraggingRef => gesture.calls = <<>>
    /\ (~isDraggingRef /\ pointerEvent.type \in {"up", "leave"}) =>
          IF gesture.moved = NoTarget
          THEN gesture.calls = <<>>
          ELSE gesture.calls = << [tradeId |-> gesture.moved.tradeId,
                                   type |-> gesture.moved.type,
                                   levelId |-> gesture.moved.levelId,
                                   price |-> gesture.movedPrice] >>

-----------------------------------------------------------------------------
\* Claims about the live feed (checked under SpecLive).

\* C19: a live feed created without an API key (unset, empty or blank) opens
\* no connection: whatever was called, no socket exists, no callback was
\* invoked, and no call or handler ended in an exception.
C19_NoKeyNoConnection ==
    (~apiKey.defined \/ trim(apiKey.chars) = <<>>) =>
        /\ sockets = <<>>
        /\ ws = 0
        /\ liveLog.ticks = <<>>
        /\ liveLog.uncaught = {}

\* C19 witness: with a blank key, subscribe() was called and stop() returned
\* after it.
C19_Witness ==
    /\ apiKey.defined
    /\ apiKey.chars # <<>>
    /\ trim(apiKey.chars) = <<>>
    /\ liveLog.subscribes > 0
    /\ liveLog.stopReturned

\* C20: after a transport failure of the live feed (a socket's error, or its
\* close by the server) and until the next subscribe(), no tick is delivered
\* to the subscriber and no handler ends in an exception.
C20_FailureMeansNoTicks ==
    /\ \A n \in 1..Len(liveLog.ticks) : ~liveLog.ticks[n].afterFailure
    /\ \A e \in liveLog.uncaught : ~e.afterFailure

\* A message that handleMessage turns into a tick.
isSample(msg) == msg.ev = "CAS" /\ msg.s # Absent /\ msg.c # Absent

RECURSIVE samplesOf(_)
samplesOf(msgs) ==
    IF msgs = <<>> THEN <<>>
    ELSE (IF isSample(Head(msgs)) THEN <<Head(msgs)>> ELSE <<>>) \o samplesOf(Tail(msgs))

\* The ticks a frame owes the subscriber registered as it arrived: one per
\* sample, in the order of the frame.
ticksOwed(last) ==
    IF last.onTick = NoCb THEN <<>>
    ELSE [n \in 1..Len(samplesOf(last.frame.msgs)) |->
            [to |-> last.onTick,
             time |-> samplesOf(last.frame.msgs)[n].s \div 1000,
             price |-> samplesOf(last.frame.msgs)[n].c]]

\* C21: malformed messages are dropped and the feed goes on: once a frame
\* that does not parse or that holds a malformed element was received, no
\* handler of a frame has let an exception escape, and a frame made of samples
\* and malformed elements has delivered every one of its samples.
C21_MalformedDropped ==
    (liveLog.op = "message" /\ liveLog.malformed) =>
        /\ \A e \in liveLog.uncaught : e.handler # "onmessage"
        /\ (\A n \in 1..Len(liveLog.last.frame.msgs) :
               \/ isSample(liveLog.last.frame.msgs[n])
               \/ liveLog.last.frame.msgs[n] \in {NullMsg, CasNoClose})
           => liveLog.last.delivered = ticksOwed(liveLog.last)

\* C22: a frame delivers exactly one tick per sample it holds to the
\* subscriber registered as it arrived, in the order of the frame, with
\* time = floor(s / 1000) and price = c; other messages deliver nothing.
C22_OneTickPerSample ==
    liveLog.op = "message" => liveLog.last.delivered = ticksOwed(liveLog.last)

\* C29: after stop() and a new subscribe(), the late close or error event of
\* the socket that stop() closed leaves the new connection as it is: the
\* socket reference, the subscriber and the subscribed flag do not change.
C29_LateEventLeavesNewConnection ==
    [][ ( /\ liveLog'.op \in {"closed", "error"}
          /\ sockets[liveLog'.last.socket].readyState = "CLOSING"
          /\ ws # 0
          /\ ws # liveLog'.last.socket )
        => UNCHANGED <<ws, liveOnTick, subscribed>> ]_vars

\* The sockets of the handle that are connecting or open.
liveSockets ==
    { s \in 1..Len(sockets) : sockets[s].readyState \in {"CONNECTING", "OPEN"} }

\* C30: a live feed handle never has more than one socket connecting or open,
\* and when stop() has returned none of its sockets is connecting or open.
C30_OneSocketAtMost ==
    /\ Cardinality(liveSockets) <= 1
    /\ liveLog.op = "stop" => liveSockets = {}

-----------------------------------------------------------------------------
\* Claims about the drag of a draft's line.

-----------------------------------------------------------------------------
\* Claims about stop() of the two feeds.

\* C23: stop() of either feed can be called in every state, without a
\* subscription too; after it the feed holds no timer or socket of its own and
\* no subscriber, a feed that was never subscribed to has no timer and no
\* socket at all, and a stop() that follows a stop() changes nothing.
C23_StopIdempotent ==
    [][/\ ENABLED stop
       /\ ENABLED liveStop
       /\ lastEvent' = "stop" =>
             /\ intervalId' = 0
             /\ onTick' = NoCb
             /\ nextTimerId' = 1 => timers' = {}
             /\ lastEvent = "stop" =>
                   /\ intervalId' = intervalId
                   /\ onTick' = onTick
                   /\ timers' = timers
       /\ liveLog'.op = "stop" =>
             /\ ws' = 0
             /\ liveOnTick' = NoCb
             /\ ~subscribed'
             /\ liveLog'.subscribes = 0 => sockets' = <<>>
             /\ liveLog.op = "stop" =>
                   /\ ws' = ws
                   /\ liveOnTick' = liveOnTick
                   /\ subscribed' = subscribed
                   /\ sockets' = sockets]_vars

\* The simulated feed was stopped before any subscribe(); the live feed was
\* subscribed to and then stopped twice in a row.
C23_Witness ==
    /\ lastEvent = "stop"
    /\ nextTimerId = 1
    /\ liveLog.op = "stop"
    /\ liveLog.stops = 2
    /\ liveLog.subscribes > 0
    /\ sockets # <<>>

-----------------------------------------------------------------------------
\* Claims about the data source.

\* C27: while VITE_POLYGON_API_KEY is not set, the data source is "simulated"
\* whatever clicks the Live (EURUSD) switch has received.
C27_StaysSimulated == apiKey = NoKey => dataSource = "simulated"

-----------------------------------------------------------------------------
\* Claims about the ids of a draft's levels.

\* C33: within the stop-loss levels of a draft, and within its take-profit
\* levels, no two levels have the same id, whatever levels were added and
\* removed.
C33_DraftIdsDistinct ==
    \A type \in Types :
        \A i, j \in 1..Len(creationLevels(type)) :
            i # j => creationLevels(type)[i].id # creationLevels(type)[j].id

-----------------------------------------------------------------------------
\* Claims about the chart's lines and drag state.

\* C34: once a drag has ended and the render that follows its commit is done,
\* the line of every placed level shows the level's committed price: the last
\* price of the drag where the commit was accepted, the price from before the
\* drag where it was rejected.
C34_LinesShowCommittedPrices ==
    ~isDraggingRef =>
        priceLinesRef = [i \in 1..Len(tradesRef) |-> linesOf(tradesRef[i])]

\* C35: between pointer events a drag target is recorded exactly while a drag
\* is in progress, a pending final price is recorded only while the target is
\* a placed level, scrolling and scaling of the chart are off exactly while a
\* drag is in progress, and after pointer-up or pointer-leave there is no
\* drag, no target and no pending price.
C35_DragStateConsistent ==
    /\ (dragTargetRef # NoTarget) <=> isDraggingRef
    /\ dragFinalPriceRef # NoPrice =>
          (isDraggingRef /\ dragTargetRef # NoTarget /\ isPlaced(dragTargetRef))
    /\ scrollEnabled <=> ~isDraggingRef
    /\ pointerEvent.type \in {"up", "leave"} =>
          /\ ~isDraggingRef
          /\ dragTargetRef = NoTarget
          /\ dragFinalPriceRef = NoPrice

-----------------------------------------------------------------------------
\* Claims about the chart panel's initialisation.

\* C36: a run of the init effect that was cleaned up (unmount, or another
\* data source) before its history was there creates no chart and no feed
\* afterwards; every feed a run subscribed to is stopped and its chart removed
\* by the run's cleanup, and the run's tick callback gets no tick after it.
C36_CancelledInitCreatesNothing ==
    \A e \in 1..Len(panel.effects) :
        LET run == panel.effects[e]
        IN  /\ ~run.createdCancelled
            /\ run.lateTicks = 0
            /\ run.cancelled => (run.chart # "shown" /\ run.stream # "subscribed")
            /\ (run.cancelled /\ run.phase # "ready") =>
                  (run.chart = "none" /\ run.stream = "none")

\* One run was cleaned up while it loaded and its history arrived later; a
\* later run became ready, got a tick and was cleaned up.
C36_Witness ==
    \E e1, e2 \in 1..Len(panel.effects) :
        /\ e1 < e2
        /\ panel.effects[e1].phase = "returned"
        /\ panel.effects[e1].history = "fetched"
        /\ panel.effects[e2].stream = "stopped"
        /\ panel.effects[e2].chart = "removed"
        /\ panel.effects[e2].ticks > 0

-----------------------------------------------------------------------------
\* Claims about the positions as a list.

\* Every position of ts whose lockedPosition flag is set has all its levels
\* locked.
lockedPositionsAllLocked(ts) ==
    \A i \in 1..Len(ts) :
        ts[i].lockedPosition =>
            \A type \in Types :
                \A k \in 1..Len(tradeLevels(ts[i], type)) :
                    tradeLevels(ts[i], type)[k].locked

\* C37: a position whose lockedPosition flag is set has all its stop-loss and
\* take-profit levels locked, and a position-lock toggle or a toggle of the
\* lock of a single level keeps it so.
C37_LockedPositionAllLevelsLocked ==
    [][(lastOp'.op \in {"lock", "positionLock"} /\ lockedPositionsAllLocked(trades))
       => lockedPositionsAllLocked(trades')]_vars

\* The positions of ts other than those of id tradeId, in their order.
others(ts, tradeId) == SelectSeq(ts, LAMBDA trade : trade.id # tradeId)

\* C38: a price update, level lock toggle, position lock, level removal,
\* visibility change or close addressed to the id X leaves every position of
\* another id as it was, and the whole list as it was when no position has
\* the id X.
C38_OtherPositionsUnchanged ==
    [][lastOp'.op \in {"price", "lock", "positionLock", "remove", "visible", "close"}
       => /\ others(trades', lastOp'.tradeId) = others(trades, lastOp'.tradeId)
          /\ (\A i \in 1..Len(trades) : trades[i].id # lastOp'.tradeId)
                => trades' = trades]_vars

\* The first position was closed; the second, locked and hidden before, is
\* what remains.
C38_Witness ==
    /\ lastOp = [op |-> "close", tradeId |-> 1]
    /\ Len(trades) = 1
    /\ trades[1].id = 2
    /\ trades[1].lockedPosition
    /\ ~trades[1].visible
-----------------------------------------------------------------------------
\* Claims about the regime's evolution (checked under SpecRegime).

\* C39: at a tick step where ticksRemaining reaches zero all four fields of the
\* regime are replaced by a fresh sample; at every other step the kind and the
\* drift stay and ticksRemaining decreases by exactly one; after every step
\* ticksRemaining is at least 1.
C39_RegimeEvolution ==
    stepBefore # NoRegime =>
        /\ stepRegime.ticksRemaining >= 1
        /\ IF stepBefore.ticksRemaining - 1 = 0
           THEN stepRegime \in sampleRegime
           ELSE /\ stepRegime.type = stepBefore.type
                /\ stepRegime.drift = stepBefore.drift
                /\ stepRegime.ticksRemaining = stepBefore.ticksRemaining - 1

\* C39 witness: the step at which a regime ran out has drawn a regime of
\* another kind.
C39_Witness ==
    /\ stepBefore # NoRegime
    /\ stepBefore.ticksRemaining = 1
    /\ stepRegime \in sampleRegime
    /\ stepRegime.type # stepBefore.type

====
